---- MODULE Spec2Model ----
(***************************************************************************)
(* Form automation engine of HM-Mcp: the submitter, scraper and matcher of *)
(* src/bulletproof_submitter.py and src/bulletproof_scraper.py, with the   *)
(* variant implementations of src/enhanced_form_submitter.py and           *)
(* src/form_scraper.py where they differ.                                  *)
(*                                                                         *)
(* Python strings are sequences of one-character strings, so that          *)
(* lower(), "in", slicing and the edit distance are computed, not assumed. *)
(***************************************************************************)
EXTENDS Integers, Sequences, FiniteSets, TLC

VARIABLES
    arg,        \* the arguments of the operation that was called (a record)
    res,        \* what it returned (a record), [op |-> "none"] until it returns
    submitter,  \* the submitter instance: its class, history and scraper
    frame,      \* the locals of the submit call that is running
    trace       \* observation: the clock, the attempts finished, the sleeps

vars == <<arg, res, submitter, frame, trace>>
engine == <<submitter, frame, trace>>

NoCall == [op |-> "none"]

\* no submitter is in use: the operation under study is a function of its input
EngineAtRest ==
    /\ submitter = [class |-> "none"]
    /\ frame = [pc |-> "idle"]
    /\ trace = [now |-> 0]

(***************************************************************************)
(* Python str operations                                                   *)
(***************************************************************************)
UpperCase == <<"A","B","C","D","E","F","G","H","I","J","K","L","M","N","O","P","Q","R","S","T","U","V","W","X","Y","Z">>
LowerCase == <<"a","b","c","d","e","f","g","h","i","j","k","l","m","n","o","p","q","r","s","t","u","v","w","x","y","z">>
Digits == <<"0","1","2","3","4","5","6","7","8","9">>

\* str.lower() on one character
LowerChar(c) ==
    IF \E i \in 1..26 : UpperCase[i] = c
    THEN LowerCase[CHOOSE i \in 1..26 : UpperCase[i] = c]
    ELSE c

\* str.lower()
lower(s) == [i \in 1..Len(s) |-> LowerChar(s[i])]

\* Python "needle in hay" on strings
In(needle, hay) ==
    \E i \in 0..(Len(hay) - Len(needle)) :
        SubSeq(hay, i + 1, i + Len(needle)) = needle

\* the positions (1-based) where needle starts in hay
Occurrences(needle, hay) ==
    {i \in 1..(Len(hay) - Len(needle) + 1) :
        SubSeq(hay, i, i + Len(needle) - 1) = needle}

IsSpace(c) == c \in {" ", "\n", "\t"}
IsAlnum(c) ==
    \E i \in 1..26 : UpperCase[i] = c \/ LowerCase[i] = c \/ (i <= 10 /\ Digits[i] = c)

\* regex \s* from position i: the first position >= i that holds no whitespace
RECURSIVE SkipSpaces(_, _)
SkipSpaces(s, i) ==
    IF i <= Len(s) /\ IsSpace(s[i]) THEN SkipSpaces(s, i + 1) ELSE i

\* str.strip()
RECURSIVE strip(_)
strip(s) ==
    IF s = <<>> THEN s
    ELSE IF IsSpace(s[1]) THEN strip(Tail(s))
    ELSE IF IsSpace(s[Len(s)]) THEN strip(SubSeq(s, 1, Len(s) - 1))
    ELSE s

\* any(keyword in s for keyword in keywords), keywords a sequence of strings
AnyIn(keywords, s) == \E k \in 1..Len(keywords) : In(keywords[k], s)

\* the first position >= i of s that holds ch, Len(s) + 1 if none
RECURSIVE NextChar(_, _, _)
NextChar(s, i, ch) ==
    IF i <= Len(s) /\ s[i] # ch THEN NextChar(s, i + 1, ch) ELSE i

\* str.split(ch)
RECURSIVE split(_, _)
split(s, ch) ==
    LET j == NextChar(s, 1, ch) IN
    IF j > Len(s) THEN <<s>>
    ELSE <<SubSeq(s, 1, j - 1)>> \o split(SubSeq(s, j + 1, Len(s)), ch)

\* re.sub(r'<[^>]+>', '', s)
RECURSIVE StripTags(_)
StripTags(s) ==
    IF s = <<>> THEN s
    ELSE LET j == NextChar(s, 2, ">") IN
         IF s[1] = "<" /\ j <= Len(s) /\ j >= 3
         THEN StripTags(SubSeq(s, j + 1, Len(s)))
         ELSE <<s[1]>> \o StripTags(Tail(s))

\* re.sub(r'\s+', ' ', s)
RECURSIVE CollapseSpaces(_)
CollapseSpaces(s) ==
    IF s = <<>> THEN s
    ELSE IF IsSpace(s[1])
         THEN <<" ">> \o CollapseSpaces(SubSeq(s, SkipSpaces(s, 1), Len(s)))
         ELSE <<s[1]>> \o CollapseSpaces(Tail(s))

(***************************************************************************)
(* Outcome classifier: _safe_process_response and its detectors            *)
(***************************************************************************)
success_url_keywords == << <<"t","h","a","n","k">>, <<"s","u","c","c","e","s","s">>, <<"c","o","n","f","i","r","m">>, <<"c","o","m","p","l","e","t","e">> >>

strong_success_phrases ==
    << <<"t","h","a","n","k"," ","y","o","u">>, <<"t","h","a","n","k","s">>, <<"m","e","s","s","a","g","e"," ","s","e","n","t">>, <<"f","o","r","m"," ","s","u","b","m","i","t","t","e","d">>,
       <<"s","u","c","c","e","s","s","f","u","l","l","y"," ","s","u","b","m","i","t","t","e","d">>, <<"s","u","b","m","i","s","s","i","o","n"," ","s","u","c","c","e","s","s","f","u","l">>, <<"s","e","n","t"," ","s","u","c","c","e","s","s","f","u","l","l","y">>,
       <<"w","e"," ","h","a","v","e"," ","r","e","c","e","i","v","e","d">>, <<"r","e","c","e","i","v","e","d"," ","y","o","u","r"," ","m","e","s","s","a","g","e">>, <<"c","o","n","f","i","r","m","a","t","i","o","n">> >>

\* the keyword each confirmation_patterns regex starts with; the rest of each
\* regex is \s*(?:number|id|code)?\s*:?\s*([a-zA-Z0-9]+)
confirmation_patterns == << <<"c","o","n","f","i","r","m","a","t","i","o","n">>, <<"r","e","f","e","r","e","n","c","e">>, <<"t","i","c","k","e","t">> >>

\* re.search(keyword \s* (?:number|id|code)? \s* :? \s* [a-zA-Z0-9]+, content,
\* IGNORECASE): the optional group starts with a letter, so the regex matches
\* exactly when the keyword is followed by \s*, an optional colon, \s* and an
\* alphanumeric character
ConfirmationPatternMatches(keyword, content) ==
    \E i \in Occurrences(keyword, lower(content)) :
        LET j == SkipSpaces(content, i + Len(keyword))
            k == IF j <= Len(content) /\ content[j] = ":"
                 THEN SkipSpaces(content, j + 1) ELSE j
        IN  k <= Len(content) /\ IsAlnum(content[k])

\* the pairs (a, b) of the success_elements regexes a.*b
success_elements ==
    << << <<"c","l","a","s","s">>, <<"s","u","c","c","e","s","s">> >>, << <<"c","l","a","s","s">>, <<"t","h","a","n","k">> >>, << <<"c","l","a","s","s">>, <<"c","o","n","f","i","r","m">> >>,
       << <<"i","d">>, <<"s","u","c","c","e","s","s">> >>, << <<"i","d">>, <<"t","h","a","n","k">> >>, << <<"i","d">>, <<"c","o","n","f","i","r","m">> >> >>

\* re.search(a.*b, content, IGNORECASE): a, then b later on the same line
DotStarMatches(a, b, content) ==
    LET c == lower(content) IN
    \E i \in Occurrences(a, c) : \E j \in Occurrences(b, c) :
        /\ j >= i + Len(a)
        /\ \A n \in (i + Len(a))..(j - 1) : c[n] # "\n"

\* f'text_{phrase.replace(" ", "_")}' of each phrase of strong_success_phrases
strong_success_tags ==
    << "text_thank_you", "text_thanks", "text_message_sent", "text_form_submitted",
       "text_successfully_submitted", "text_submission_successful", "text_sent_successfully",
       "text_we_have_received", "text_received_your_message", "text_confirmation" >>

_safe_detect_success_indicators(content, final_url, original_url) ==
    LET content_lower == lower(content)
        url_part ==
            IF final_url # original_url /\ final_url # <<>>
            THEN IF AnyIn(success_url_keywords, lower(final_url))
                 THEN << "success_url_redirect" >>
                 ELSE << "url_changed" >>
            ELSE <<>>
        hit == {k \in 1..Len(strong_success_phrases) :
                    In(strong_success_phrases[k], content_lower)}
        phrase_part ==
            [n \in 1..Cardinality(hit) |->
                strong_success_tags[
                    CHOOSE k \in hit : Cardinality({h \in hit : h < k}) = n - 1]]
        number_part ==
            IF \E p \in 1..Len(confirmation_patterns) :
                    ConfirmationPatternMatches(confirmation_patterns[p], content)
            THEN << "confirmation_number" >> ELSE <<>>
        element_part ==
            IF \E p \in 1..Len(success_elements) :
                    DotStarMatches(success_elements[p][1], success_elements[p][2], content)
            THEN << "success_element" >> ELSE <<>>
    IN  url_part \o phrase_part \o number_part \o element_part

\* (phrase, indicator) pairs
error_phrases ==
    << << <<"e","r","r","o","r">>, "error_general" >>, << <<"f","a","i","l","e","d">>, "error_failed" >>,
       << <<"i","n","v","a","l","i","d">>, "error_invalid" >>, << <<"r","e","q","u","i","r","e","d"," ","f","i","e","l","d">>, "error_required" >>,
       << <<"m","i","s","s","i","n","g">>, "error_missing" >>, << <<"t","r","y"," ","a","g","a","i","n">>, "error_retry" >>,
       << <<"p","r","o","b","l","e","m">>, "error_problem" >>, << <<"i","n","c","o","r","r","e","c","t">>, "error_incorrect" >>,
       << <<"n","o","t"," ","a","l","l","o","w","e","d">>, "error_not_allowed" >>, << <<"f","o","r","b","i","d","d","e","n">>, "error_forbidden" >> >>

\* (attribute, keyword) of each error_patterns regex
\* attribute=["'][^"']*keyword[^"']*["']
error_patterns ==
    << << <<"c","l","a","s","s">>, <<"e","r","r","o","r">> >>, << <<"c","l","a","s","s">>, <<"d","a","n","g","e","r">> >>,
       << <<"c","l","a","s","s">>, <<"a","l","e","r","t">> >>, << <<"i","d">>, <<"e","r","r","o","r">> >> >>

IsQuote(c) == c \in {"\"", "'"}

\* the first position >= i that holds a quote character, Len(s) + 1 if none
RECURSIVE NextQuote(_, _)
NextQuote(s, i) ==
    IF i <= Len(s) /\ ~IsQuote(s[i]) THEN NextQuote(s, i + 1) ELSE i

\* re.search(attribute=["'][^"']*keyword[^"']*["'], content, IGNORECASE)
QuotedAttrMatches(attribute, keyword, content) ==
    LET c == lower(content)
        head == attribute \o <<"=">>
    IN  \E i \in Occurrences(head, c) :
            LET open == i + Len(head)
                close == NextQuote(c, open + 1)
            IN  /\ open <= Len(c) /\ IsQuote(c[open])
                /\ close <= Len(c)
                /\ In(keyword, SubSeq(c, open + 1, close - 1))

_safe_detect_error_indicators(content) ==
    LET content_lower == lower(content)
        hit == {k \in 1..Len(error_phrases) : In(error_phrases[k][1], content_lower)}
        phrase_part ==
            [n \in 1..Cardinality(hit) |->
                error_phrases[CHOOSE k \in hit : Cardinality({h \in hit : h < k}) = n - 1][2]]
        element_part ==
            IF \E p \in 1..Len(error_patterns) :
                    QuotedAttrMatches(error_patterns[p][1], error_patterns[p][2], content)
            THEN << "error_element" >> ELSE <<>>
    IN  phrase_part \o element_part

confirmation_keywords == << <<"t","h","a","n","k"," ","y","o","u">>, <<"s","u","c","c","e","s","s">>, <<"s","e","n","t">>, <<"r","e","c","e","i","v","e","d">>, <<"c","o","n","f","i","r","m","a","t","i","o","n">> >>

generic_confirmation == <<"F","o","r","m"," ","s","u","b","m","i","s","s","i","o","n"," ","a","p","p","e","a","r","s"," ","t","o"," ","h","a","v","e"," ","b","e","e","n"," ","s","u","c","c","e","s","s","f","u","l">>

\* the cleaned text of a line of the content, "" when the line does not qualify
ConfirmationOfLine(line) ==
    LET line_clean == strip(line)
        clean_line == strip(CollapseSpaces(StripTags(line_clean)))
    IN  IF /\ Len(line_clean) > 10 /\ Len(line_clean) < 200
           /\ AnyIn(confirmation_keywords, lower(line_clean))
           /\ Len(clean_line) > 10
        THEN clean_line ELSE <<>>

_safe_extract_confirmation(content, success_indicators) ==
    LET content_lines == split(content, "\n")
        good == {n \in 1..Len(content_lines) : ConfirmationOfLine(content_lines[n]) # <<>>}
    IN  IF good # {}
        THEN ConfirmationOfLine(content_lines[CHOOSE n \in good : \A m \in good : n <= m])
        ELSE IF success_indicators # <<>> THEN generic_confirmation ELSE <<>>

\* variant: the error check dropped
SubmissionSuccess_IgnoringErrors(success_score, has_errors) == success_score >= 50

\* variant: both signals required (50 + 30)
SubmissionSuccess_BothSignals(success_score, has_errors) ==
    success_score >= 80 /\ ~has_errors

\* success_score >= 50 and not has_errors
SubmissionSuccess(success_score, has_errors) == success_score >= 50 /\ ~has_errors

\* content and current_url are browser_page.html or "" and browser_page.url
_safe_process_response(content, current_url, original_url) ==
    LET success_indicators ==
            _safe_detect_success_indicators(content, current_url, original_url)
        error_indicators == _safe_detect_error_indicators(content)
        has_errors == Len(error_indicators) > 0
        has_success == Len(success_indicators) > 0
        url_changed == current_url # original_url
        success_score ==
            (IF has_success THEN 50 ELSE 0) + (IF url_changed THEN 30 ELSE 0)
                + (IF ~has_errors THEN 20 ELSE 0)
        submission_success == SubmissionSuccess(success_score, has_errors)
        confirmation == _safe_extract_confirmation(content, success_indicators)
    IN  [op |-> "process_response",
         success |-> submission_success,
         success_score |-> success_score,
         original_url |-> original_url,
         final_url |-> current_url,
         url_changed |-> url_changed,
         success_indicators |-> success_indicators,
         error_indicators |-> error_indicators,
         confirmation |-> confirmation,
         message |->
            IF submission_success
            THEN IF confirmation # <<>> THEN "confirmation"
                 ELSE IF url_changed THEN "submitted_redirected"
                 ELSE "appears_submitted"
            ELSE IF error_indicators # <<>> THEN "may_have_failed"
                 ELSE "result_unclear"]

(***************************************************************************)
(* The classifier on bounded inputs                                        *)
(***************************************************************************)
MaxContentTokens == 2

\* the pieces post-submission pages are made of
ContentTokens ==
    << <<"T","h","a","n","k"," ","y","o","u">>, <<"e","r","r","o","r">>, <<"h","e","l","l","o">>, <<"c","l","a","s","s","=","\"","a","l","e","r","t","\"">>, <<"t","i","c","k","e","t",":"," ","7">>,
       <<"c","l","a","s","s","=","'","c","o","n","f","i","r","m","'">> >>

\* ' '.join(tokens)
RECURSIVE Join(_)
Join(tokens) ==
    IF tokens = <<>> THEN <<>>
    ELSE IF Len(tokens) = 1 THEN tokens[1]
    ELSE tokens[1] \o <<" ">> \o Join(Tail(tokens))

Contents ==
    {Join([n \in DOMAIN pick |-> ContentTokens[pick[n]]]) :
        pick \in UNION {[1..n -> 1..Len(ContentTokens)] : n \in 0..MaxContentTokens}}

\* the URL submit was called with
OriginalUrls == { <<"/","f","o","r","m">>, <<"/","t","h","a","n","k","s">> }

\* browser_page.url after the submission
FinalUrls == { <<>>, <<"/","f","o","r","m">>, <<"/","d","o","n","e">>, <<"/","t","h","a","n","k","s">> }

InitClassify ==
    /\ arg \in [op : {"process_response"}, content : Contents,
                current_url : FinalUrls, original_url : OriginalUrls]
    /\ res = NoCall
    /\ EngineAtRest

ProcessResponse ==
    /\ arg.op = "process_response"
    /\ res = NoCall
    /\ res' = _safe_process_response(arg.content, arg.current_url, arg.original_url)
    /\ UNCHANGED <<arg, engine>>

NextClassify == ProcessResponse

SpecClassify == InitClassify /\ [][NextClassify]_vars

Classified == res.op = "process_response"
HasThankYou == In(<<"t","h","a","n","k"," ","y","o","u">>, lower(arg.content))
HasErrorPhrase == In(<<"e","r","r","o","r">>, lower(arg.content))
HasConfirmationPhrase == AnyIn(strong_success_phrases, lower(arg.content))
UrlDiffers == arg.current_url # arg.original_url

\* C2 as stated: content with "thank you" and a changed URL scores at least 80
\* and is classified successful; content with "thank you" and "error" and an
\* unchanged URL is classified failed.
C2_AsStated ==
    Classified =>
        /\ (HasThankYou /\ UrlDiffers) => (res.success_score >= 80 /\ res.success)
        /\ (HasThankYou /\ HasErrorPhrase /\ ~UrlDiffers) => ~res.success

\* C2 amended: content with "thank you" and a changed URL scores at least 80,
\* and is classified successful exactly when no error indicator is present
\* (the score is then 100); content with "thank you" and "error" and an
\* unchanged URL is classified failed.
C2_ThankYouScoring ==
    Classified =>
        /\ (HasThankYou /\ UrlDiffers) =>
                /\ res.success_score >= 80
                /\ res.success <=> (res.error_indicators = <<>>)
                /\ res.success => res.success_score = 100
        /\ (HasThankYou /\ HasErrorPhrase /\ ~UrlDiffers) => ~res.success

\* C2 witness: "thank you", a changed URL, no error indicator: success, score 100
C2_Witness ==
    /\ Classified /\ HasThankYou /\ UrlDiffers
    /\ res.success /\ res.success_score = 100

\* C3 as stated: success only if the score is at least 50 and no error
\* indicator is present, and never on one signal alone: success needs both a
\* changed URL and a confirmation phrase.
C3_AsStated ==
    Classified =>
        /\ res.success => (res.success_score >= 50 /\ res.error_indicators = <<>>)
        /\ res.success => (UrlDiffers /\ HasConfirmationPhrase)

\* C3 amended: success is reported exactly when the score is at least 50 and
\* no error indicator is present, and one signal alone is sufficient: with no
\* error indicator, a changed URL without a confirmation phrase yields
\* success, and so does a confirmation phrase with an unchanged URL.
C3_OneSignalSuffices ==
    Classified =>
        /\ res.success <=> (res.success_score >= 50 /\ res.error_indicators = <<>>)
        /\ (res.error_indicators = <<>> /\ UrlDiffers /\ ~HasConfirmationPhrase)
                => res.success
        /\ (res.error_indicators = <<>> /\ HasConfirmationPhrase /\ ~UrlDiffers)
                => res.success

\* C3 witness: a confirmation phrase alone, URL unchanged, classified successful
C3_Witness ==
    /\ Classified /\ HasConfirmationPhrase /\ ~UrlDiffers
    /\ res.error_indicators = <<>> /\ res.success /\ res.success_score = 70

\* C19: when the classifier finds no success indicator the result is not a
\* success, and when it finds no error indicator either the message is the
\* "result unclear" one; success is never reported without a success indicator
C19_NoGuessedSuccess ==
    (Classified /\ res.success_indicators = <<>>)
    => /\ ~res.success
       /\ res.error_indicators = <<>> => res.message = "result_unclear"

(***************************************************************************)
(* Field-value matcher and form filling                                    *)
(***************************************************************************)
\* Python None where a string is expected: a sequence that is no string
None == <<"None">>

\* str(n) of a natural number
RECURSIVE str(_)
str(n) == IF n < 10 THEN <<Digits[n + 1]>> ELSE str(n \div 10) \o <<Digits[(n % 10) + 1]>>

\* field_data is a dict in insertion order: a sequence of [k |-> key, v |-> value]
\* with distinct keys
DictHas(d, key) == \E i \in 1..Len(d) : d[i].k = key
DictGet(d, key) == d[CHOOSE i \in 1..Len(d) : d[i].k = key].v

\* {k.lower(): v for k, v in field_data.items()}[key]: the last item whose
\* lowered key is key
LowerDictHas(d, key) == \E i \in 1..Len(d) : lower(d[i].k) = key
LowerDictGet(d, key) ==
    d[CHOOSE i \in 1..Len(d) :
        /\ lower(d[i].k) = key
        /\ \A j \in 1..Len(d) : lower(d[j].k) = key => j <= i].v

\* the first item of seq (a sequence) that satisfies Test, as its index; 0 if none
FirstIndex(seq, Test(_)) ==
    IF \E i \in 1..Len(seq) : Test(seq[i])
    THEN CHOOSE i \in 1..Len(seq) : Test(seq[i]) /\ \A j \in 1..(i - 1) : ~Test(seq[j])
    ELSE 0

field_mappings ==
    << << <<"e","m","a","i","l">>, <<"e","-","m","a","i","l">>, <<"m","a","i","l">>, <<"e","m","a","i","l","_","a","d","d","r","e","s","s">> >>,
       << <<"n","a","m","e">>, <<"f","u","l","l","_","n","a","m","e">>, <<"f","u","l","l","n","a","m","e">>, <<"u","s","e","r","n","a","m","e">> >>,
       << <<"f","i","r","s","t","_","n","a","m","e">>, <<"f","i","r","s","t","n","a","m","e">>, <<"f","n","a","m","e">> >>,
       << <<"l","a","s","t","_","n","a","m","e">>, <<"l","a","s","t","n","a","m","e">>, <<"l","n","a","m","e">> >>,
       << <<"p","h","o","n","e">>, <<"t","e","l","e","p","h","o","n","e">>, <<"m","o","b","i","l","e">>, <<"p","h","o","n","e","_","n","u","m","b","e","r">> >>,
       << <<"m","e","s","s","a","g","e">>, <<"c","o","m","m","e","n","t">>, <<"c","o","m","m","e","n","t","s">>, <<"d","e","s","c","r","i","p","t","i","o","n">> >>,
       << <<"s","u","b","j","e","c","t">>, <<"t","i","t","l","e">>, <<"t","o","p","i","c">> >> >>

SeqHas(seq, x) == \E i \in 1..Len(seq) : seq[i] = x

SameConcept(a, b) ==
    \E c \in 1..Len(field_mappings) :
        SeqHas(field_mappings[c], a) /\ SeqHas(field_mappings[c], b)

\* Strategy 3 test of one provided key against one field key
PartialMatch(provided_key, field_key) ==
    /\ field_key # <<>>
    /\ \/ In(lower(provided_key), lower(field_key))
       \/ In(lower(field_key), lower(provided_key))

\* variant: Strategy 3 tried before Strategy 2
_find_field_value_multiple_strategies_PartialFirst(field_data, identifier, name, id_attr, placeholder) ==
    LET keys == <<id_attr, name, identifier>>
        IsExact(key) == key # <<>> /\ DictHas(field_data, key)
        IsLower(key) == key # <<>> /\ LowerDictHas(field_data, lower(key))
        IsPartial(item) ==
            \E n \in 1..4 : PartialMatch(item.k, (keys \o <<placeholder>>)[n])
        \* Strategy 4 loops over the field keys first, the provided keys inside
        ConceptItem(key) ==
            LET Fits(item) == SameConcept(lower(key), lower(item.k))
            IN  FirstIndex(field_data, Fits)
        HasConcept(key) == key # <<>> /\ ConceptItem(key) # 0
        exact == FirstIndex(keys, IsExact)
        insensitive == FirstIndex(keys, IsLower)
        partial == FirstIndex(field_data, IsPartial)
        concept == FirstIndex(keys, HasConcept)
    IN  IF exact # 0 THEN DictGet(field_data, keys[exact])
        ELSE IF partial # 0 THEN field_data[partial].v
        ELSE IF insensitive # 0 THEN LowerDictGet(field_data, lower(keys[insensitive]))
        ELSE IF concept # 0 THEN field_data[ConceptItem(keys[concept])].v
        ELSE None

_find_field_value_multiple_strategies(field_data, identifier, name, id_attr, placeholder) ==
    LET keys == <<id_attr, name, identifier>>
        IsExact(key) == key # <<>> /\ DictHas(field_data, key)
        IsLower(key) == key # <<>> /\ LowerDictHas(field_data, lower(key))
        IsPartial(item) ==
            \E n \in 1..4 : PartialMatch(item.k, (keys \o <<placeholder>>)[n])
        \* Strategy 4 loops over the field keys first, the provided keys inside
        ConceptItem(key) ==
            LET Fits(item) == SameConcept(lower(key), lower(item.k))
            IN  FirstIndex(field_data, Fits)
        HasConcept(key) == key # <<>> /\ ConceptItem(key) # 0
        exact == FirstIndex(keys, IsExact)
        insensitive == FirstIndex(keys, IsLower)
        partial == FirstIndex(field_data, IsPartial)
        concept == FirstIndex(keys, HasConcept)
    IN  IF exact # 0 THEN DictGet(field_data, keys[exact])
        ELSE IF insensitive # 0 THEN LowerDictGet(field_data, lower(keys[insensitive]))
        ELSE IF partial # 0 THEN field_data[partial].v
        ELSE IF concept # 0 THEN field_data[ConceptItem(keys[concept])].v
        ELSE None

non_fillable_types == << <<"h","i","d","d","e","n">>, <<"s","u","b","m","i","t">>, <<"b","u","t","t","o","n">>, <<"i","m","a","g","e">>, <<"r","e","s","e","t">> >>

\* element.attr('type') or 'text'
TypeOrText(element) == IF element.type = <<>> THEN <<"t","e","x","t">> ELSE element.type

\* field_id or field_name or f'field_{i}', i the 0-based position in the form
FieldIdentifier(element, i) ==
    IF element.id # <<>> THEN element.id
    ELSE IF element.name # <<>> THEN element.name
    ELSE <<"f","i","e","l","d","_">> \o str(i)

\* the value the matcher resolves for the element at 1-based position n
ValueFor(form, n, field_data) ==
    _find_field_value_multiple_strategies(
        field_data, FieldIdentifier(form[n], n - 1), form[n].name, form[n].id,
        form[n].placeholder)

\* variant: an element without a value is cleared before it is noted
FillStep_Cleared(acc, form, n, field_data) ==
    LET element == form[n]
        field_type == TypeOrText(element)
        field_identifier == FieldIdentifier(element, n - 1)
        value == ValueFor(form, n, field_data)
    IN  IF element.attr_raises
        THEN [acc EXCEPT !.errors = Append(@, [why |-> "error_with_field", field |-> str(n - 1)])]
        ELSE IF SeqHas(non_fillable_types, lower(field_type))
        THEN [acc EXCEPT !.skipped_fields = Append(@, [why |-> "type_skipped", field |-> field_type])]
        ELSE IF value # None
        THEN IF element.fill_ok
             THEN [acc EXCEPT !.touched = @ \cup {n},
                              !.filled_fields =
                        Append(@, [field |-> field_identifier, type |-> field_type, value |-> value])]
             ELSE [acc EXCEPT !.touched = @ \cup {n},
                              !.errors = Append(@, [why |-> "failed_to_fill", field |-> field_identifier])]
        ELSE [acc EXCEPT !.touched = @ \cup {n},
                         !.skipped_fields = Append(@, [why |-> "no_value", field |-> field_identifier])]

\* One round of the loop over enumerate(field_elements). An element record
\* carries what the browser does when it is filled: fill_ok is the result of
\* _safe_fill_single_field, attr_raises whether reading its attributes raises.
\* touched is the set of the positions of the elements handed to
\* _safe_fill_single_field, which clears them and types into them.
FillStep(acc, form, n, field_data) ==
    LET element == form[n]
        field_type == TypeOrText(element)
        field_identifier == FieldIdentifier(element, n - 1)
        value == ValueFor(form, n, field_data)
    IN  IF element.attr_raises
        THEN [acc EXCEPT !.errors = Append(@, [why |-> "error_with_field", field |-> str(n - 1)])]
        ELSE IF SeqHas(non_fillable_types, lower(field_type))
        THEN [acc EXCEPT !.skipped_fields = Append(@, [why |-> "type_skipped", field |-> field_type])]
        ELSE IF value # None
        THEN IF element.fill_ok
             THEN [acc EXCEPT !.touched = @ \cup {n},
                              !.filled_fields =
                        Append(@, [field |-> field_identifier, type |-> field_type, value |-> value])]
             ELSE [acc EXCEPT !.touched = @ \cup {n},
                              !.errors = Append(@, [why |-> "failed_to_fill", field |-> field_identifier])]
        ELSE [acc EXCEPT !.skipped_fields = Append(@, [why |-> "no_value", field |-> field_identifier])]

RECURSIVE FillLoop(_, _, _, _)
FillLoop(acc, form, n, field_data) ==
    IF n > Len(form) THEN acc
    ELSE FillLoop(FillStep(acc, form, n, field_data), form, n + 1, field_data)

\* the lists of _safe_fill_form_fields before its loop, and no element touched
EmptyLists == [filled_fields |-> <<>>, errors |-> <<>>, skipped_fields |-> <<>>, touched |-> {}]

\* the positions of the elements the loop handed to _safe_fill_single_field
TouchedBy(form, field_data) == FillLoop(EmptyLists, form, 1, field_data).touched

\* variant: total_elements counts the elements the loop did not skip by type
_safe_fill_form_fields_FillableCounted(form, eles_raises, field_data) ==
    IF eles_raises
    THEN [op |-> "fill", fields_filled |-> 0,
          errors |-> <<[why |-> "could_not_find_fields", field |-> <<>>]>>,
          filled_fields |-> <<>>, skipped_fields |-> <<>>]
    ELSE LET acc == FillLoop(EmptyLists, form, 1, field_data)
         IN  [op |-> "fill", fields_filled |-> Len(acc.filled_fields),
              filled_fields |-> acc.filled_fields, errors |-> acc.errors,
              skipped_fields |-> acc.skipped_fields,
              total_elements |->
                Len(SelectSeq(form, LAMBDA element :
                        element.attr_raises
                        \/ ~SeqHas(non_fillable_types, lower(TypeOrText(element)))))]

\* form is the sequence form.eles('tag:input, tag:textarea, tag:select');
\* eles_raises: that query raises
_safe_fill_form_fields(form, eles_raises, field_data) ==
    IF eles_raises
    THEN [op |-> "fill", fields_filled |-> 0,
          errors |-> <<[why |-> "could_not_find_fields", field |-> <<>>]>>,
          filled_fields |-> <<>>, skipped_fields |-> <<>>]
    ELSE LET acc == FillLoop(EmptyLists, form, 1, field_data)
         IN  [op |-> "fill", fields_filled |-> Len(acc.filled_fields),
              filled_fields |-> acc.filled_fields, errors |-> acc.errors,
              skipped_fields |-> acc.skipped_fields, total_elements |-> Len(form)]

(***************************************************************************)
(* The matcher and the fill loop on bounded forms and data                 *)
(***************************************************************************)
MaxFormElements == 2
MaxDataKeys == 2

\* what a form element is, without what the browser does with it
ElementShapes ==
    { [tag |-> "input", type |-> <<"t","e","x","t">>, name |-> <<"e","m","a","i","l">>, id |-> <<>>, placeholder |-> <<>>],
      [tag |-> "input", type |-> <<"t","e","x","t">>, name |-> <<"u","s","e","r","_","e","m","a","i","l">>, id |-> <<>>, placeholder |-> <<>>],
      [tag |-> "input", type |-> <<"h","i","d","d","e","n">>, name |-> <<"t","o","k","e","n">>, id |-> <<>>, placeholder |-> <<>>],
      [tag |-> "input", type |-> <<>>, name |-> <<>>, id |-> <<>>, placeholder |-> <<"Y","o","u","r"," ","E","m","a","i","l">>],
      [tag |-> "input", type |-> <<"t","e","l">>, name |-> <<"p","h","o","n","e","_","n","u","m","b","e","r">>, id |-> <<"P","h","o","n","e">>, placeholder |-> <<>>] }

WithBrowser(shape, fill_ok, attr_raises) ==
    [tag |-> shape.tag, type |-> shape.type, name |-> shape.name, id |-> shape.id,
     placeholder |-> shape.placeholder, fill_ok |-> fill_ok, attr_raises |-> attr_raises]

FormElements ==
    {WithBrowser(shape, fill_ok, FALSE) : shape \in ElementShapes, fill_ok \in BOOLEAN}
        \cup {WithBrowser(CHOOSE shape \in ElementShapes : shape.name = <<"e","m","a","i","l">>, FALSE, TRUE)}

Forms == UNION {[1..n -> FormElements] : n \in 0..MaxFormElements}

\* the items callers supply; each key has its own value
DataItems ==
    { [k |-> <<"e","m","a","i","l">>, v |-> <<"a","@","b",".","c">>],
      [k |-> <<"E","m","a","i","l">>, v |-> <<"A","@","b",".","c">>],
      [k |-> <<"e","-","m","a","i","l">>, v |-> <<"e","@","b",".","c">>],
      [k |-> <<"m","o","b","i","l","e">>, v |-> <<"5","5","5","0","1","0","0">>],
      [k |-> <<"u","s","e","r","_","e","m","a","i","l">>, v |-> <<"u","@","b",".","c">>] }

\* non-empty dicts: sequences of items with distinct keys
FieldDatas ==
    {d \in UNION {[1..n -> DataItems] : n \in 1..MaxDataKeys} :
        \A i, j \in DOMAIN d : i # j => d[i].k # d[j].k}

InitMatch ==
    /\ arg \in [op : {"fill"}, form : Forms, field_data : FieldDatas]
    /\ res = NoCall
    /\ EngineAtRest

FillFormFields ==
    /\ arg.op = "fill"
    /\ res = NoCall
    /\ res' = _safe_fill_form_fields(arg.form, FALSE, arg.field_data)
    /\ trace' = [now |-> 0, touched |-> TouchedBy(arg.form, arg.field_data)]
    /\ UNCHANGED <<arg, submitter, frame>>

NextMatch == FillFormFields

SpecMatch == InitMatch /\ [][NextMatch]_vars

\* the positions of the form's elements with the given name
ElementsNamed(name) == {n \in 1..Len(arg.form) : arg.form[n].name = name}

OnlyEmailSupplied == Len(arg.field_data) = 1 /\ arg.field_data[1].k = <<"e","m","a","i","l">>

\* the fill loop resolved a value for the field: it is under filled_fields or
\* under the failed fills, not under the fields without a value
BoundTo(field, value) ==
    \/ \E i \in 1..Len(res.filled_fields) :
            res.filled_fields[i].field = field /\ res.filled_fields[i].value = value
    \/ \E i \in 1..Len(res.errors) :
            res.errors[i].why = "failed_to_fill" /\ res.errors[i].field = field

\* C9: with fields "email" and "user_email" and only the key "email" supplied,
\* the value is bound to the "email" field and never to the "user_email" field.
C9_ExactMatchOnly ==
    (/\ res.op = "fill" /\ OnlyEmailSupplied
     /\ ElementsNamed(<<"e","m","a","i","l">>) # {} /\ ElementsNamed(<<"u","s","e","r","_","e","m","a","i","l">>) # {}
     /\ \A n \in 1..Len(arg.form) : ~arg.form[n].attr_raises)
        => /\ BoundTo(<<"e","m","a","i","l">>, <<"a","@","b",".","c">>)
           /\ ~BoundTo(<<"u","s","e","r","_","e","m","a","i","l">>, <<"a","@","b",".","c">>)

(***************************************************************************)
(* The fill loop on forms with elements of every kind the loop tells apart *)
(***************************************************************************)
MaxFillElements == 2
MaxFillKeys == 2

\* every shape filled by the browser, one whose fill fails, and one whose
\* attributes cannot be read
FillElements ==
    {WithBrowser(shape, TRUE, FALSE) : shape \in ElementShapes}
        \cup {WithBrowser(CHOOSE shape \in ElementShapes : shape.name = <<"u","s","e","r","_","e","m","a","i","l">>,
                          FALSE, FALSE),
              WithBrowser(CHOOSE shape \in ElementShapes : shape.name = <<"e","m","a","i","l">>, FALSE, TRUE)}

FillForms == UNION {[1..n -> FillElements] : n \in 0..MaxFillElements}

FillItems == {item \in DataItems : item.k \in { <<"e","m","a","i","l">>, <<"E","m","a","i","l">>, <<"m","o","b","i","l","e">> }}

FillDatas ==
    {d \in UNION {[1..n -> FillItems] : n \in 1..MaxFillKeys} :
        \A i, j \in DOMAIN d : i # j => d[i].k # d[j].k}

InitFill ==
    /\ arg \in [op : {"fill"}, form : FillForms, field_data : FillDatas]
    /\ res = NoCall
    /\ EngineAtRest

NextFill == FillFormFields

SpecFill == InitFill /\ [][NextFill]_vars

\* the positions of the fillable elements of the form whose attributes can
\* be read, and of those among them the matcher resolves no value for
Fillable ==
    {n \in 1..Len(arg.form) :
        /\ ~arg.form[n].attr_raises
        /\ ~SeqHas(non_fillable_types, lower(TypeOrText(arg.form[n])))}

Unmatched == {n \in Fillable : ValueFor(arg.form, n, arg.field_data) = None}

NotedAs(list, why) == SelectSeq(list, LAMBDA note : note.why = why)

\* C28: a fillable field the matcher resolves no value for is not handed to
\* _safe_fill_single_field; each such field is noted once under
\* skipped_fields, with its identifier, and the errors are those of the
\* other fields only
C28_UnmatchedUntouched ==
    res.op = "fill"
    => /\ trace.touched \cap Unmatched = {}
       /\ Len(NotedAs(res.skipped_fields, "no_value")) = Cardinality(Unmatched)
       /\ \A n \in Unmatched :
            \E i \in 1..Len(res.skipped_fields) :
                /\ res.skipped_fields[i].why = "no_value"
                /\ res.skipped_fields[i].field = FieldIdentifier(arg.form[n], n - 1)
       /\ Len(res.errors)
            = Cardinality({n \in 1..Len(arg.form) : arg.form[n].attr_raises})
              + Cardinality({n \in Fillable \ Unmatched : ~arg.form[n].fill_ok})

\* C28: a form with a field that was filled and a field without a value
C28_Witness ==
    /\ res.op = "fill"
    /\ Unmatched # {}
    /\ trace.touched # {}
    /\ res.fields_filled >= 1

(***************************************************************************)
(* Fuzzy matcher: _safe_find_fuzzy_match                                   *)
(***************************************************************************)
Min3(a, b, c) == IF a <= b /\ a <= c THEN a ELSE IF b <= c THEN b ELSE c

\* the inner loop of simple_edit_distance: current_row grown to full length
RECURSIVE FillRow(_, _, _, _)
FillRow(current_row, previous_row, c1, s2) ==
    LET n == Len(current_row) IN
    IF n = Len(s2) + 1 THEN current_row
    ELSE LET insertions == previous_row[n + 1] + 1
             deletions == current_row[n] + 1
             substitutions == previous_row[n] + (IF c1 # s2[n] THEN 1 ELSE 0)
         IN  FillRow(Append(current_row, Min3(insertions, deletions, substitutions)),
                     previous_row, c1, s2)

\* the outer loop: the row after the characters i.. of s1
RECURSIVE EditRows(_, _, _, _)
EditRows(previous_row, s1, i, s2) ==
    IF i > Len(s1) THEN previous_row
    ELSE EditRows(FillRow(<<i>>, previous_row, s1[i], s2), s1, i + 1, s2)

RECURSIVE simple_edit_distance(_, _)
simple_edit_distance(s1, s2) ==
    IF Len(s1) < Len(s2) THEN simple_edit_distance(s2, s1)
    ELSE IF Len(s2) = 0 THEN Len(s1)
    ELSE LET last == EditRows([k \in 1..(Len(s2) + 1) |-> k - 1], s1, 1, s2)
         IN  last[Len(last)]

Max2(a, b) == IF a >= b THEN a ELSE b

\* variant: half of the longer length allowed instead of a third
MaxDistance_Half(target, candidate) == Max2(Len(target), Len(candidate)) \div 2

\* max(len(target), len(candidate)) // 3
MaxDistance(target, candidate) == Max2(Len(target), Len(candidate)) \div 3

\* the test of the edit-distance loop on one candidate
CloseMatch(target, candidate) ==
    /\ candidate # <<>> /\ Len(candidate) > 2
    /\ simple_edit_distance(lower(target), lower(candidate)) <= MaxDistance(target, candidate)

\* min(items, key=Key): the first item, in order, with the least key
MinBy(items, Key(_)) ==
    items[CHOOSE i \in 1..Len(items) :
        /\ \A j \in 1..Len(items) : Key(items[i]) <= Key(items[j])
        /\ \A j \in 1..(i - 1) : Key(items[j]) > Key(items[i])]

\* the items of a sequence that satisfy Test, in order
Filter(seq, Test(_)) ==
    LET keep == {i \in 1..Len(seq) : Test(seq[i])} IN
    [n \in 1..Cardinality(keep) |->
        seq[CHOOSE i \in keep : Cardinality({h \in keep : h < i}) = n - 1]]

\* candidates is a Python set: the sequence is the order in which this run
\* iterates it. The result names the layer that produced the match.
_safe_find_fuzzy_match(target, candidates) ==
    LET target_lower == lower(target)
        IsExact(candidate) == candidate # <<>> /\ lower(candidate) = target_lower
        IsSubstring(candidate) ==
            /\ candidate # <<>>
            /\ \/ In(target_lower, lower(candidate))
               \/ In(lower(candidate), target_lower)
        IsClose(candidate) == CloseMatch(target, candidate)
        Distance(candidate) == simple_edit_distance(target_lower, lower(candidate))
        exact == FirstIndex(candidates, IsExact)
        matches == Filter(candidates, IsSubstring)
        close_matches == Filter(candidates, IsClose)
    IN  IF target = <<>> \/ candidates = <<>> THEN [op |-> "fuzzy", match |-> None, via |-> "none"]
        ELSE IF exact # 0 THEN [op |-> "fuzzy", match |-> candidates[exact], via |-> "exact"]
        ELSE IF matches # <<>> THEN [op |-> "fuzzy", match |-> MinBy(matches, Len), via |-> "substring"]
        ELSE IF close_matches # <<>>
             THEN [op |-> "fuzzy", match |-> MinBy(close_matches, Distance), via |-> "distance"]
        ELSE [op |-> "fuzzy", match |-> None, via |-> "none"]

(***************************************************************************)
(* The fuzzy matcher on bounded keys                                       *)
(***************************************************************************)
MaxCandidates == 2

FuzzyTargets == { <<"p","h","o","n">>, <<"p","h","o","m","e">>, <<"f","o","n","e">>, <<"t","e","l","e","f","o","n","e">>, <<"a","b","c">>, <<"P","H","O","N","E">> }

FuzzyCandidates == { <<"p","h","o","n","e">>, <<"t","e","l","e","p","h","o","n","e">>, <<"t","e","l","e","f","o","n","o">>, <<"a","c">> }

\* the iteration orders of the sets of at most MaxCandidates candidates
CandidateOrders ==
    {c \in UNION {[1..n -> FuzzyCandidates] : n \in 0..MaxCandidates} :
        \A i, j \in DOMAIN c : i # j => c[i] # c[j]}

InitFuzzy ==
    /\ arg \in [op : {"fuzzy"}, target : FuzzyTargets, candidates : CandidateOrders]
    /\ res = NoCall
    /\ EngineAtRest

FindFuzzyMatch ==
    /\ arg.op = "fuzzy"
    /\ res = NoCall
    /\ res' = _safe_find_fuzzy_match(arg.target, arg.candidates)
    /\ UNCHANGED <<arg, engine>>

NextFuzzy == FindFuzzyMatch

SpecFuzzy == InitFuzzy /\ [][NextFuzzy]_vars

\* what the claim says of every match made by edit distance: the candidate is
\* longer than 2 characters, its distance is at most a third of the longer
\* length, and no other candidate that qualifies is closer
DistanceRule ==
    res.via = "distance" =>
        LET d == simple_edit_distance(lower(arg.target), lower(res.match)) IN
        /\ Len(res.match) > 2
        /\ 3 * d <= Max2(Len(arg.target), Len(res.match))
        /\ \A n \in 1..Len(arg.candidates) :
                LET c == arg.candidates[n]
                    dc == simple_edit_distance(lower(arg.target), lower(c))
                IN  (Len(c) > 2 /\ 3 * dc <= Max2(Len(arg.target), Len(c))) => d <= dc

\* a candidate within the bound is never passed over: no match only if none
\* qualifies
NoMatchRule ==
    res.match = None =>
        \A n \in 1..Len(arg.candidates) :
            LET c == arg.candidates[n] IN
            ~(Len(c) > 2 /\
              3 * simple_edit_distance(lower(arg.target), lower(c))
                    <= Max2(Len(arg.target), Len(c)))

\* C10 as stated: given "phon" the fuzzy matcher matches "phone" and does not
\* match "telephone"; a match by edit distance has a candidate longer than 2
\* characters and a distance of at most a third of the longer length, the
\* smallest distance winning.
C10_AsStated ==
    res.op = "fuzzy" =>
        /\ (arg.target = <<"p","h","o","n">> /\ SeqHas(arg.candidates, <<"p","h","o","n","e">>)) => res.match = <<"p","h","o","n","e">>
        /\ arg.target = <<"p","h","o","n">> => res.match # <<"t","e","l","e","p","h","o","n","e">>
        /\ DistanceRule

\* C10 amended: given "phon", the edit-distance test accepts "phone" (distance
\* 1, bound 1) and rejects "telephone" (distance 5, bound 3), and the matcher
\* returns "phone" whenever "phone" is a candidate; but "phon" is a substring
\* of "telephone" and substring matching runs first, so the matcher returns
\* "telephone" when it is the shortest candidate containing "phon". For all
\* keys, a match by edit distance has a candidate longer than 2 characters and
\* a distance of at most a third of the longer length, the smallest distance
\* winning, and no match is reported only if no candidate qualifies.
C10_FuzzyMatch ==
    res.op = "fuzzy" =>
        /\ simple_edit_distance(<<"p","h","o","n">>, <<"p","h","o","n","e">>) = 1
        /\ CloseMatch(<<"p","h","o","n">>, <<"p","h","o","n","e">>)
        /\ simple_edit_distance(<<"p","h","o","n">>, <<"t","e","l","e","p","h","o","n","e">>) = 5
        /\ ~CloseMatch(<<"p","h","o","n">>, <<"t","e","l","e","p","h","o","n","e">>)
        /\ (arg.target = <<"p","h","o","n">> /\ SeqHas(arg.candidates, <<"p","h","o","n","e">>)) => res.match = <<"p","h","o","n","e">>
        /\ (arg.target = <<"p","h","o","n">> /\ SeqHas(arg.candidates, <<"t","e","l","e","p","h","o","n","e">>)
                /\ ~SeqHas(arg.candidates, <<"p","h","o","n","e">>))
              => (res.match = <<"t","e","l","e","p","h","o","n","e">> /\ res.via = "substring")
        /\ DistanceRule
        /\ NoMatchRule

\* C10 witness: two candidates within the bound, the closer one returned
C10_Witness ==
    /\ res.op = "fuzzy" /\ res.via = "distance"
    /\ arg.target = <<"t","e","l","e","f","o","n","e">> /\ Len(arg.candidates) = 2
    /\ CloseMatch(arg.target, <<"t","e","l","e","p","h","o","n","e">>) /\ SeqHas(arg.candidates, <<"t","e","l","e","p","h","o","n","e">>)
    /\ res.match = <<"t","e","l","e","f","o","n","o">>

(***************************************************************************)
(* Field extraction: the lightweight HTML parser and the DOM readers       *)
(***************************************************************************)
\* the subtypes the DOM reader of bulletproof_scraper leaves out
browser_skipped_types == << <<"h","i","d","d","e","n">>, <<"s","u","b","m","i","t">>, <<"b","u","t","t","o","n">> >>

\* An element of a form: its tag, its attributes as the DOM has them, whether
\* the page source quotes its attribute values, and whether reading it in the
\* browser raises.
Field(tag, type, element, identifier) ==
    [tag |-> tag, type |-> type, name |-> element.name, id |-> element.id,
     identifier |-> identifier, placeholder |-> element.placeholder,
     required |-> element.required]

\* 'required' in input_tag.lower(): the word anywhere in the tag's text
RequiredInTag(element) ==
    \/ element.required
    \/ \E value \in {element.type, element.name, element.id, element.placeholder} :
            In(<<"r","e","q","u","i","r","e","d">>, lower(value))

\* attrs[...] of _parse_fields_from_html: the regexes read quoted values only
HtmlAttrs(element) ==
    IF element.quoted THEN [element EXCEPT !.required = RequiredInTag(element)]
    ELSE [element EXCEPT !.type = <<>>, !.name = <<>>, !.id = <<>>, !.placeholder = <<>>,
                         !.required = RequiredInTag(element)]

OrElse(a, b) == IF a # <<>> THEN a ELSE b

\* the elements of the form with the given tag, in document order
WithTag(form, tag) == LET Is(e) == e.tag = tag IN Filter(form, Is)

\* one round of the input loop of _parse_fields_from_html
HtmlInputStep(fields, element) ==
    LET attrs == HtmlAttrs(element)
        field_type == OrElse(attrs.type, <<"t","e","x","t">>)
    IN  IF SeqHas(non_fillable_types, lower(field_type)) THEN fields
        ELSE Append(fields,
                Field("input", field_type, attrs,
                      OrElse(attrs.id, OrElse(attrs.name, <<"f","i","e","l","d","_">> \o str(Len(fields))))))

\* one round of the textarea loop of _parse_fields_from_html
HtmlTextareaStep(fields, element) ==
    LET attrs == HtmlAttrs(element) IN
    Append(fields,
        Field("textarea", <<"t","e","x","t","a","r","e","a">>, attrs,
              OrElse(attrs.id, OrElse(attrs.name, <<"t","e","x","t","a","r","e","a","_">> \o str(Len(fields))))))

\* for element in elements: fields = Step(fields, element)
RECURSIVE HtmlInputs(_, _)
HtmlInputs(fields, elements) ==
    IF elements = <<>> THEN fields
    ELSE HtmlInputs(HtmlInputStep(fields, elements[1]), Tail(elements))

RECURSIVE HtmlTextareas(_, _)
HtmlTextareas(fields, elements) ==
    IF elements = <<>> THEN fields
    ELSE HtmlTextareas(HtmlTextareaStep(fields, elements[1]), Tail(elements))

\* form is the sequence of the input, textarea and select elements between
\* <form> and </form>
_parse_fields_from_html(form) ==
    HtmlTextareas(HtmlInputs(<<>>, WithTag(form, "input")), WithTag(form, "textarea"))

\* one round of a loop of _extract_fields_with_browser_safe
BrowserStep(fields, element) ==
    LET field_type == IF element.tag = "input" THEN OrElse(element.type, <<"t","e","x","t">>)
                      ELSE IF element.tag = "textarea" THEN <<"t","e","x","t","a","r","e","a">> ELSE <<"s","e","l","e","c","t">>
        prefix == IF element.tag = "input" THEN <<"i","n","p","u","t","_">>
                  ELSE IF element.tag = "textarea" THEN <<"t","e","x","t","a","r","e","a","_">> ELSE <<"s","e","l","e","c","t","_">>
    IN  IF element.attr_raises THEN fields
        ELSE IF element.tag = "input" /\ SeqHas(browser_skipped_types, lower(field_type))
        THEN fields
        ELSE Append(fields,
                Field(element.tag, field_type, element,
                      OrElse(element.id, OrElse(element.name, prefix \o str(Len(fields))))))

RECURSIVE BrowserLoop(_, _)
BrowserLoop(fields, elements) ==
    IF elements = <<>> THEN fields
    ELSE BrowserLoop(BrowserStep(fields, elements[1]), Tail(elements))

_extract_fields_with_browser_safe(form) ==
    BrowserLoop(
        BrowserLoop(BrowserLoop(<<>>, WithTag(form, "input")), WithTag(form, "textarea")),
        WithTag(form, "select"))

\* one round of the loop of form_scraper's _extract_field_details_from_element
ElementStep(fields, element) ==
    LET field_type == OrElse(element.type, <<"t","e","x","t">>) IN
    IF SeqHas(non_fillable_types, lower(field_type)) THEN fields
    ELSE Append(fields,
            Field(element.tag, field_type, element, OrElse(element.id, element.name)))

RECURSIVE ElementLoop(_, _)
ElementLoop(fields, elements) ==
    IF elements = <<>> THEN fields
    ELSE ElementLoop(ElementStep(fields, elements[1]), Tail(elements))

\* form_scraper.py reads the elements with no handler of its own: a raising
\* element ends the extraction in the caller's handler, without fields
_extract_field_details_from_element(form) ==
    IF \E n \in 1..Len(form) : form[n].attr_raises THEN <<>>
    ELSE ElementLoop(<<>>, form)

(***************************************************************************)
(* Extraction on bounded forms                                             *)
(***************************************************************************)
MaxExtractElements == 2

Element(tag, type, name, id, quoted, attr_raises) ==
    [tag |-> tag, type |-> type, name |-> name, id |-> id, placeholder |-> <<>>,
     required |-> FALSE, quoted |-> quoted, attr_raises |-> attr_raises, fill_ok |-> TRUE]

ExtractElements ==
    { Element("input", <<"t","e","x","t">>, <<"b">>, <<"a">>, TRUE, FALSE),
      Element("input", <<>>, <<>>, <<>>, TRUE, FALSE),
      Element("input", <<"h","i","d","d","e","n">>, <<"t","o","k","e","n">>, <<>>, TRUE, FALSE),
      Element("input", <<"h","i","d","d","e","n">>, <<"c","s","r","f">>, <<>>, FALSE, FALSE),
      Element("input", <<"S","u","b","m","i","t">>, <<>>, <<>>, TRUE, FALSE),
      Element("input", <<"b","u","t","t","o","n">>, <<>>, <<>>, TRUE, FALSE),
      Element("input", <<"i","m","a","g","e">>, <<>>, <<>>, TRUE, FALSE),
      Element("input", <<"r","e","s","e","t">>, <<>>, <<>>, TRUE, FALSE),
      Element("input", <<"e","m","a","i","l">>, <<"e","m","a","i","l">>, <<>>, TRUE, TRUE),
      Element("textarea", <<>>, <<"m","s","g">>, <<>>, TRUE, FALSE),
      Element("select", <<>>, <<>>, <<>>, TRUE, FALSE) }

ExtractForms == UNION {[1..n -> ExtractElements] : n \in 0..MaxExtractElements}

\* "html": bulletproof_scraper on the fetched page source; "browser":
\* bulletproof_scraper on the DOM; "element": form_scraper on the DOM
ExtractionPaths == {"html", "browser", "element"}

InitExtract ==
    /\ arg \in [op : {"extract"}, path : ExtractionPaths, form : ExtractForms]
    /\ res = NoCall
    /\ EngineAtRest

ExtractFields ==
    /\ arg.op = "extract"
    /\ res = NoCall
    /\ res' = [op |-> "extract",
               fields |-> CASE arg.path = "html" -> _parse_fields_from_html(arg.form)
                            [] arg.path = "browser" -> _extract_fields_with_browser_safe(arg.form)
                            [] arg.path = "element" -> _extract_field_details_from_element(arg.form)]
    /\ UNCHANGED <<arg, engine>>

NextExtract == ExtractFields

SpecExtract == InitExtract /\ [][NextExtract]_vars

\* C7: on every extraction path every returned field descriptor has a
\* non-empty identifier: the element id, else the name, else a fallback.
C7_IdentifierNonEmpty ==
    res.op = "extract" =>
        \A n \in 1..Len(res.fields) :
            LET f == res.fields[n] IN
            /\ f.identifier # <<>>
            /\ f.id # <<>> => f.identifier = f.id
            /\ (f.id = <<>> /\ f.name # <<>>) => f.identifier = f.name

\* C8: on every extraction path no field of subtype hidden, submit, button,
\* image or reset is in the returned field list.
C8_NoControlFields ==
    res.op = "extract" =>
        \A n \in 1..Len(res.fields) :
            ~SeqHas(non_fillable_types, lower(res.fields[n].type))

(***************************************************************************)
(* The scraper: fetch contexts, probe, analysis and extraction             *)
(***************************************************************************)
\* d.update(u) on dicts, dicts being records
Update(d, u) == [k \in DOMAIN d \cup DOMAIN u |-> IF k \in DOMAIN u THEN u[k] ELSE d[k]]

\* d.get(key, default)
Get(d, key, default) == IF key \in DOMAIN d THEN d[key] ELSE default

\* s[:n]
Truncate(s, n) == IF Len(s) <= n THEN s ELSE SubSeq(s, 1, n)

\* a call that returned value, or raised the exception with message e
Returned(value, scraper) == [raised |-> FALSE, value |-> value, scraper |-> scraper]
Raised(e, scraper) == [raised |-> TRUE, e |-> e, scraper |-> scraper]

\* BulletproofFormScraper.__init__: the fields the operations use
NewScraper ==
    [browser_page |-> FALSE, session_page |-> FALSE,
     _browser_created |-> FALSE, _session_created |-> FALSE]

\* web is what the lower layers do during one call: whether DrissionPage
\* imports, whether the contexts can be built, whether get() raises, and the
\* page that loads
_safe_create_browser(scraper, web) ==
    IF ~web.drissionpage THEN Raised(<<"D","r","i","s","s","i","o","n","P","a","g","e"," ","n","o","t"," ","a","v","a","i","l","a","b","l","e">>, scraper)
    ELSE IF scraper._browser_created THEN Returned(scraper.browser_page, scraper)
    ELSE IF web.browser = "raises"
    THEN Raised(<<"n","o"," ","c","h","r","o","m","e">>, [scraper EXCEPT !._browser_created = FALSE])
    ELSE Returned(TRUE, [scraper EXCEPT !._browser_created = TRUE])

_safe_create_session(scraper, web) ==
    IF ~web.drissionpage THEN Raised(<<"D","r","i","s","s","i","o","n","P","a","g","e"," ","n","o","t"," ","a","v","a","i","l","a","b","l","e">>, scraper)
    ELSE IF scraper._session_created THEN Returned(scraper.session_page, scraper)
    ELSE IF web.session = "raises"
    THEN Raised(<<"n","o"," ","s","e","s","s","i","o","n">>, [scraper EXCEPT !._session_created = FALSE])
    ELSE Returned(TRUE, [scraper EXCEPT !._session_created = TRUE])

barrier_words ==
    [captcha |-> << <<"c","a","p","t","c","h","a">>, <<"r","e","c","a","p","t","c","h","a">>, <<"h","c","a","p","t","c","h","a">> >>,
     login |-> << <<"l","o","g","i","n">>, <<"s","i","g","n","i","n">> >>]

\* f"http_error_{status_code}"
HttpError(status_code) ==
    IF status_code = 403 THEN "http_error_403"
    ELSE IF status_code = 404 THEN "http_error_404"
    ELSE "http_error_5xx"

_safe_detect_barriers(content, status_code) ==
    IF content = <<>> THEN << "no_content" >>
    ELSE LET content_lower == lower(content) IN
         (IF status_code >= 400 THEN << HttpError(status_code) >> ELSE <<>>)
      \o (IF AnyIn(barrier_words.captcha, content_lower) THEN << "captcha_detected" >> ELSE <<>>)
      \o (IF In(<<"c","l","o","u","d","f","l","a","r","e">>, content_lower) /\ In(<<"c","h","e","c","k","i","n","g">>, content_lower)
          THEN << "cloudflare_challenge" >> ELSE <<>>)
      \o (IF AnyIn(barrier_words.login, content_lower) /\ In(<<"p","a","s","s","w","o","r","d">>, content_lower)
          THEN << "login_required" >> ELSE <<>>)
      \o (IF In(<<"a","c","c","e","s","s"," ","d","e","n","i","e","d">>, content_lower) \/ In(<<"f","o","r","b","i","d","d","e","n">>, content_lower)
          THEN << "access_denied" >> ELSE <<>>)

\* a page is its text and its forms; the forms the pattern <form ...>...</form>
\* finds in the source are the forms of the page
_safe_count_forms(page) == IF page.content = <<>> THEN 0 ELSE Len(page.forms)

\* variant: a context that exists already is not read again
ProbeWith_NotReadAgain(method, scraper, web, url) ==
    LET has == IF method = "http_session" THEN scraper.session_page ELSE scraper.browser_page
        created == IF method = "http_session" THEN _safe_create_session(scraper, web)
                   ELSE _safe_create_browser(scraper, web)
        after == IF created.raised THEN created.scraper
                 ELSE IF method = "http_session"
                 THEN [created.scraper EXCEPT !.session_page = created.value]
                 ELSE [created.scraper EXCEPT !.browser_page = created.value]
        get == IF method = "http_session" THEN web.session_get ELSE web.browser_get
    IN  IF has
        THEN Returned([barriers |-> <<>>, forms_found |-> 0, final_url |-> url], scraper)
        ELSE IF created.raised THEN created
        ELSE IF ~created.value THEN Raised(<<"'","N","o","n","e","T","y","p","e","'"," ","o","b","j","e","c","t"," ","h","a","s"," ","n","o"," ","a","t","t","r","i","b","u","t","e"," ","'","g","e","t","'">>, after)
        ELSE IF get = "raises" THEN Raised(<<"c","o","n","n","e","c","t","i","o","n"," ","r","e","f","u","s","e","d">>, after)
        ELSE Returned(
                [barriers |-> _safe_detect_barriers(web.page.content, 200),
                 forms_found |-> _safe_count_forms(web.page),
                 final_url |-> web.page.url],
                after)

\* the try block of one fetch method of test_url_accessibility_enhanced:
\* build the context if it is missing, get the page, read it
ProbeWith(method, scraper, web, url) ==
    LET has == IF method = "http_session" THEN scraper.session_page ELSE scraper.browser_page
        created == IF has THEN Returned(TRUE, scraper)
                   ELSE IF method = "http_session" THEN _safe_create_session(scraper, web)
                   ELSE _safe_create_browser(scraper, web)
        after == IF created.raised THEN created.scraper
                 ELSE IF method = "http_session"
                 THEN [created.scraper EXCEPT !.session_page = created.value]
                 ELSE [created.scraper EXCEPT !.browser_page = created.value]
        get == IF method = "http_session" THEN web.session_get ELSE web.browser_get
    IN  IF created.raised THEN created
        ELSE IF ~created.value THEN Raised(<<"'","N","o","n","e","T","y","p","e","'"," ","o","b","j","e","c","t"," ","h","a","s"," ","n","o"," ","a","t","t","r","i","b","u","t","e"," ","'","g","e","t","'">>, after)
        ELSE IF get = "raises" THEN Raised(<<"c","o","n","n","e","c","t","i","o","n"," ","r","e","f","u","s","e","d">>, after)
        ELSE Returned(
                [barriers |-> _safe_detect_barriers(web.page.content, 200),
                 forms_found |-> _safe_count_forms(web.page),
                 final_url |-> web.page.url],
                after)

\* the browser method of test_url_accessibility_enhanced, after the session
\* method left result; browser is what the browser try block did
ProbeBrowserPart(result, browser) ==
    IF browser.raised
    THEN Returned(
            Update(result,
                [method_used |-> "fallback", barriers |-> << "browser_failed" >>,
                 success_probability |-> 20,
                 recommendations |-> <<"B","o","t","h"," ","m","e","t","h","o","d","s"," ","f","a","i","l","e","d","."," ","E","r","r","o","r",":"," ">> \o Truncate(browser.e, 100)]),
            browser.scraper)
    ELSE Returned(
            Update(result,
                [method_used |-> "browser_automation", final_url |-> browser.value.final_url,
                 barriers |-> browser.value.barriers,
                 forms_found |-> browser.value.forms_found,
                 success_probability |-> IF browser.value.barriers = <<>> THEN 80 ELSE 40]),
            browser.scraper)

\* test_url_accessibility_enhanced after the session try block, session being
\* what that block did
ProbeSessionPart(session, web, url) ==
    LET result == [accessible |-> TRUE, status_code |-> 200, method_used |-> "unknown",
                   barriers |-> <<>>, success_probability |-> 50, forms_found |-> 0,
                   final_url |-> url]
    IN  IF session.raised
        THEN ProbeBrowserPart(
                Update(result, [warnings |-> <<"S","e","s","s","i","o","n"," ","m","e","t","h","o","d"," ","f","a","i","l","e","d",":"," ">> \o Truncate(session.e, 100)]),
                ProbeWith("browser_automation", session.scraper, web, url))
        ELSE IF session.value.barriers # <<>>
        THEN ProbeBrowserPart(
                Update(result,
                    [method_used |-> "http_session", barriers |-> session.value.barriers,
                     forms_found |-> session.value.forms_found,
                     final_url |-> session.value.final_url, success_probability |-> 60]),
                ProbeWith("browser_automation", session.scraper, web, url))
        ELSE Returned(
                Update(result,
                    [method_used |-> "http_session", barriers |-> session.value.barriers,
                     forms_found |-> session.value.forms_found,
                     final_url |-> session.value.final_url, success_probability |-> 90]),
                session.scraper)

test_url_accessibility_enhanced(scraper, web, url) ==
    ProbeSessionPart(ProbeWith("http_session", scraper, web, url), web, url)

\* the fields of the result that extraction and validation read
AnalysisOf(access, url) ==
    Returned(
        [success |-> Get(access.value, "accessible", FALSE),
         method_used |-> Get(access.value, "method_used", "unknown"),
         url |-> Get(access.value, "final_url", url),
         forms_count |-> Get(access.value, "forms_found", 0),
         accessibility |-> access.value],
        access.scraper)

analyze_page_comprehensive_enhanced(scraper, web, url) ==
    AnalysisOf(test_url_accessibility_enhanced(scraper, web, url), url)

\* list[i] of Python: a negative i counts from the end, and an i outside
\* -len..len-1 raises IndexError
InRange(list, i) == -Len(list) <= i /\ i < Len(list)
PyIndex(list, i) == IF i >= 0 THEN list[i + 1] ELSE list[Len(list) + i + 1]

\* session_page.get(url) again, then the fields of the form_index-th form of
\* the page source
_extract_fields_with_session_safe(web, form_index) ==
    IF web.session_get = "raises" \/ web.refetch = "raises" THEN <<>>
    ELSE IF web.page.content = <<>> THEN <<>>
    ELSE IF form_index >= Len(web.page.forms) THEN <<>>
    ELSE IF ~InRange(web.page.forms, form_index) THEN <<>>
    ELSE _parse_fields_from_html(PyIndex(web.page.forms, form_index))

\* browser_page.get(url) again, then the fields of the form_index-th form of
\* the DOM
ExtractWithBrowser(web, form_index) ==
    IF web.browser_get = "raises" \/ web.refetch = "raises" THEN <<>>
    ELSE IF form_index >= Len(web.page.forms) THEN <<>>
    ELSE IF ~InRange(web.page.forms, form_index) THEN <<>>
    ELSE _extract_fields_with_browser_safe(PyIndex(web.page.forms, form_index))

\* the else branch of extract_form_fields_enhanced: the session, and the
\* browser when the session cannot be built
ExtractFallback(scraper, web, form_index) ==
    LET session == IF scraper.session_page THEN Returned(TRUE, scraper)
                   ELSE _safe_create_session(scraper, web)
        browser == IF session.scraper.browser_page THEN Returned(TRUE, session.scraper)
                   ELSE _safe_create_browser(session.scraper, web)
    IN  IF ~session.raised /\ session.value
        THEN Returned([fields |-> _extract_fields_with_session_safe(web, form_index),
                       method |-> "http_session_fallback"],
                      [session.scraper EXCEPT !.session_page = TRUE])
        ELSE IF browser.raised THEN browser
        ELSE IF ~browser.value
        THEN Raised(<<"'","N","o","n","e","T","y","p","e","'"," ","o","b","j","e","c","t"," ","h","a","s"," ","n","o"," ","a","t","t","r","i","b","u","t","e"," ","'","g","e","t","'">>,
                    [browser.scraper EXCEPT !.browser_page = FALSE])
        ELSE Returned([fields |-> ExtractWithBrowser(web, form_index),
                       method |-> "browser_automation_fallback"],
                      [browser.scraper EXCEPT !.browser_page = TRUE])

\* the fields by the method the analysis used
ExtractBy(method, scraper, web, form_index) ==
    IF method = "http_session" /\ scraper.session_page
    THEN Returned([fields |-> _extract_fields_with_session_safe(web, form_index),
                   method |-> method], scraper)
    ELSE IF method = "browser_automation" /\ scraper.browser_page
    THEN Returned([fields |-> ExtractWithBrowser(web, form_index), method |-> method], scraper)
    ELSE ExtractFallback(scraper, web, form_index)

\* the end of extract_form_fields_enhanced, extracted being what the
\* extraction did
ExtractResult(result, extracted) ==
    IF extracted.raised
    THEN Returned(Update(result,
                    [error |-> <<"F","i","e","l","d"," ","e","x","t","r","a","c","t","i","o","n"," ","f","a","i","l","e","d",":"," ">> \o Truncate(extracted.e, 200)]),
                  extracted.scraper)
    ELSE Returned(Update(result,
                    [success |-> TRUE, method_used |-> extracted.value.method,
                     fields |-> extracted.value.fields, error |-> None]),
                  extracted.scraper)

\* extract_form_fields_enhanced after the analysis
ExtractAfter(analyzed, web, url, form_index) ==
    LET result == [success |-> FALSE, method_used |-> "unknown", fields |-> <<>>,
                   form_action |-> url, form_method |-> "POST",
                   form_index |-> form_index, error |-> None]
    IN  IF ~Get(analyzed.value, "success", FALSE)
        THEN Returned(Update(result, [error |-> <<"P","a","g","e"," ","n","o","t"," ","a","c","c","e","s","s","i","b","l","e"," ","o","r"," ","a","n","a","l","y","s","i","s"," ","f","a","i","l","e","d">>]),
                      analyzed.scraper)
        ELSE IF Get(analyzed.value, "forms_count", 0) = 0
        THEN Returned(Update(result, [error |-> <<"N","o"," ","f","o","r","m","s"," ","f","o","u","n","d"," ","o","n"," ","p","a","g","e">>]), analyzed.scraper)
        ELSE IF form_index >= Get(analyzed.value, "forms_count", 0)
        THEN Returned(Update(result,
                        [error |-> <<"F","o","r","m"," ","i","n","d","e","x"," ">> \o str(form_index) \o <<" ","n","o","t"," ","f","o","u","n","d","."," ","P","a","g","e"," ","h","a","s"," ">>
                                    \o str(Get(analyzed.value, "forms_count", 0)) \o <<" ","f","o","r","m","s",".">>]),
                      analyzed.scraper)
        ELSE ExtractResult(result,
                ExtractBy(Get(analyzed.value, "method_used", "browser_automation"),
                          analyzed.scraper, web, form_index))

extract_form_fields_enhanced(scraper, web, url, form_index) ==
    ExtractAfter(analyze_page_comprehensive_enhanced(scraper, web, url), web, url, form_index)

(***************************************************************************)
(* The submitter: validation                                               *)
(***************************************************************************)
_safe_find_field_value(field, field_data) ==
    LET keys == << field.id, field.name, field.identifier >>
        exact == FirstIndex(keys, LAMBDA key : key # <<>> /\ DictHas(field_data, key))
        field_keys == {lower(keys[n]) : n \in {m \in 1..3 : keys[m] # <<>>}}
        loose == FirstIndex(field_data, LAMBDA item : lower(item.k) \in field_keys)
    IN  IF exact # 0 THEN DictGet(field_data, keys[exact])
        ELSE IF loose # 0 THEN field_data[loose].v
        ELSE <<>>

\* value.split('@')[-1]
AfterLastAt(value) ==
    LET ats == {n \in 1..Len(value) : value[n] = "@"} IN
    IF ats = {} THEN value
    ELSE SubSeq(value, (CHOOSE n \in ats : \A m \in ats : m <= n) + 1, Len(value))

\* re.sub(r'[^\d+\-\(\)\s]', '', value)
PhoneClean(value) ==
    LET Kept(c) == \/ \E d \in 1..10 : Digits[d] = c
                   \/ c \in {"+", "-", "(", ")"}
                   \/ IsSpace(c)
    IN  Filter(value, Kept)

StartsWith(s, prefix) == Len(s) >= Len(prefix) /\ SubSeq(s, 1, Len(prefix)) = prefix

\* the fields of the model carry no maxlength and no pattern
_safe_validate_field_value(field, value) ==
    LET field_type == lower(field.type) IN
    IF field_type = <<"e","m","a","i","l">>
    THEN IF ~In(<<"@">>, value) \/ ~In(<<".">>, AfterLastAt(value))
         THEN << [why |-> "invalid_email_format", field |-> field.identifier] >> ELSE <<>>
    ELSE IF field_type = <<"u","r","l">>
    THEN IF ~(StartsWith(value, <<"h","t","t","p",":","/","/">>) \/ StartsWith(value, <<"h","t","t","p","s",":","/","/">>)
                \/ StartsWith(value, <<"w","w","w",".">>))
         THEN << [why |-> "invalid_url_format", field |-> field.identifier] >> ELSE <<>>
    ELSE IF field_type = <<"t","e","l">>
    THEN IF Len(PhoneClean(value)) < 7
         THEN << [why |-> "phone_too_short", field |-> field.identifier] >> ELSE <<>>
    ELSE <<>>

\* variant: every field taken as required
ValidateStep_AllRequired(acc, field, field_data) ==
    LET provided_value == _safe_find_field_value(field, field_data)
        missing == provided_value = <<>> \/ strip(provided_value) = <<>>
        key == OrElse(field.identifier, field.name)
    IN  [issues |-> acc.issues
                    \o (IF missing
                        THEN << [why |-> "required_field_missing", field |-> field.identifier] >>
                        ELSE <<>>)
                    \o (IF provided_value # <<>>
                        THEN _safe_validate_field_value(field, provided_value) ELSE <<>>),
         suggestions |-> acc.suggestions
                    \o (IF missing THEN << [why |-> "provide_value", field |-> key] >> ELSE <<>>),
         matched_fields |-> acc.matched_fields
                    \cup (IF provided_value # <<>> THEN {key} ELSE {})]

\* one round of the field loop of validate_submission_enhanced
ValidateStep(acc, field, field_data) ==
    LET provided_value == _safe_find_field_value(field, field_data)
        missing == field.required /\ (provided_value = <<>> \/ strip(provided_value) = <<>>)
        key == OrElse(field.identifier, field.name)
    IN  [issues |-> acc.issues
                    \o (IF missing
                        THEN << [why |-> "required_field_missing", field |-> field.identifier] >>
                        ELSE <<>>)
                    \o (IF provided_value # <<>>
                        THEN _safe_validate_field_value(field, provided_value) ELSE <<>>),
         suggestions |-> acc.suggestions
                    \o (IF missing THEN << [why |-> "provide_value", field |-> key] >> ELSE <<>>),
         matched_fields |-> acc.matched_fields
                    \cup (IF provided_value # <<>> THEN {key} ELSE {})]

RECURSIVE ValidateLoop(_, _, _)
ValidateLoop(acc, fields, field_data) ==
    IF fields = <<>> THEN acc
    ELSE ValidateLoop(ValidateStep(acc, fields[1], field_data), Tail(fields), field_data)

\* one round of the loop over the supplied keys; known is known_fields in the
\* order the set iterates
UnknownKeyStep(acc, provided_key, known, matched_fields) ==
    LET best_match == _safe_find_fuzzy_match(provided_key, known).match IN
    IF SeqHas(known, provided_key) \/ provided_key \in matched_fields THEN acc
    ELSE IF best_match # None
    THEN [acc EXCEPT !.suggestions =
            Append(@, [why |-> "might_be", field |-> provided_key, match |-> best_match])]
    ELSE [acc EXCEPT !.warnings = Append(@, [why |-> "unknown_field", field |-> provided_key])]

RECURSIVE UnknownKeyLoop(_, _, _, _)
UnknownKeyLoop(acc, n, field_data, known) ==
    IF n > Len(field_data) THEN acc
    ELSE UnknownKeyLoop(UnknownKeyStep(acc, field_data[n].k, known, acc.matched_fields),
                        n + 1, field_data, known)

\* the verdict of validate_submission_enhanced on the fields of the form;
\* known is known_fields in the order the set iterates
Verdict(result, fields, field_data, method_used, checked, known) ==
    LET final == UnknownKeyLoop(
                    [issues |-> checked.issues, suggestions |-> checked.suggestions,
                     warnings |-> <<>>, matched_fields |-> checked.matched_fields],
                    1, field_data, known)
    IN  Update(result,
            [fields_checked |-> Len(fields), method_used |-> method_used,
             valid |-> Len(final.issues) = 0,
             issues |-> final.issues, warnings |-> final.warnings,
             suggestions |-> final.suggestions,
             match_score |-> (Cardinality(final.matched_fields) * 100)
                                \div Max2(Len(field_data), 1),
             matched_fields |-> Cardinality(final.matched_fields),
             total_fields |-> Len(fields)])

\* known_fields
KnownFields(fields) ==
    UNION {{fields[n].name, fields[n].id, fields[n].identifier} : n \in 1..Len(fields)}
        \ {<<>>}

\* validate_submission_enhanced after the extraction
ValidateAfter(result, extracted, field_data, order) ==
    IF ~Get(extracted.value, "success", FALSE)
    THEN Returned(Update(result,
            [valid |-> FALSE,
             issues |-> << [why |-> "cannot_validate",
                            error |-> Get(extracted.value, "error", None)] >>,
             method_used |-> Get(extracted.value, "method_used", "unknown"),
             warnings |-> << [why |-> "form_structure_analysis_failed"] >>]),
            extracted.scraper)
    ELSE Returned(
            Verdict(result, extracted.value.fields, field_data,
                    Get(extracted.value, "method_used", "unknown"),
                    ValidateLoop([issues |-> <<>>, suggestions |-> <<>>, matched_fields |-> {}],
                                 extracted.value.fields, field_data),
                    Filter(order, LAMBDA name : name \in KnownFields(extracted.value.fields))),
            extracted.scraper)

\* the objects a caller may pass as field_data: a dict, of its items in
\* order, or a number
Dict(items) == [type |-> "dict", items |-> items]
Number(n) == [type |-> "int", n |-> n]

\* bool(field_data)
Truth(field_data) ==
    IF field_data.type = "dict" THEN field_data.items # <<>> ELSE field_data.n # 0

\* len(field_data) if field_data else 0
DataProvided(field_data) ==
    IF ~Truth(field_data) THEN Returned(0, <<>>)
    ELSE IF field_data.type = "dict" THEN Returned(Len(field_data.items), <<>>)
    ELSE Raised(<<"o","b","j","e","c","t"," ","o","f"," ","t","y","p","e"," ","'","i","n","t","'"," ","h","a","s"," ","n","o"," ","l","e","n","(",")">>, <<>>)

\* validate_submission_enhanced once the base result is built
ValidateInputs(result, scraper, web, url, field_data, form_index, order) ==
    IF url = <<>>
    THEN Returned(Update(result,
            [valid |-> FALSE, issues |-> << [why |-> "invalid_url"] >>,
             method_used |-> "input_validation"]), scraper)
    ELSE IF ~Truth(field_data) \/ field_data.type # "dict"
    THEN Returned(Update(result,
            [valid |-> FALSE, issues |-> << [why |-> "no_field_data"] >>,
             method_used |-> "input_validation"]), scraper)
    ELSE ValidateAfter(result, extract_form_fields_enhanced(scraper, web, url, form_index),
                       field_data.items, order)

\* order: the universe of names in the order Python's set iterates them.
\* The base result holds len(field_data), and so does the result the outer
\* handler builds: when len raises in the first it raises again in the second
validate_submission_enhanced(scraper, web, url, field_data, form_index, order) ==
    IF DataProvided(field_data).raised
    THEN Raised(DataProvided(field_data).e, scraper)
    ELSE ValidateInputs(
            [valid |-> TRUE, issues |-> <<>>, warnings |-> <<>>, suggestions |-> <<>>,
             fields_checked |-> 0, data_provided |-> DataProvided(field_data).value,
             method_used |-> "basic_validation"],
            scraper, web, url, field_data, form_index, order)

(***************************************************************************)
(* The submitter: one browser attempt                                      *)
(***************************************************************************)
\* site is what the lower layers do during one attempt: the fields of web,
\* and navigation ("loads", "second_try": get() raises or leaves no URL once,
\* "fails": twice), eles (the form query), form_eles (the field query),
\* tactic (the first submission tactic that works, "none_found" if none),
\* response_read (reading the page after submission) and after (that page)
_safe_submit_form(site) ==
    IF site.tactic = "none_found"
    THEN [method |-> "none_found", success |-> FALSE,
          error |-> <<"N","o"," ","w","o","r","k","i","n","g"," ","s","u","b","m","i","s","s","i","o","n"," ","m","e","t","h","o","d"," ","f","o","u","n","d">>]
    ELSE [method |-> site.tactic, success |-> TRUE]

\* _safe_process_response with its handler: reading the page may raise
ProcessResponseOf(site, original_url) ==
    IF site.response_read = "raises"
    THEN [success |-> FALSE,
          error |-> <<"R","e","s","p","o","n","s","e"," ","p","r","o","c","e","s","s","i","n","g"," ","f","a","i","l","e","d",":"," ">> \o Truncate(<<"p","a","g","e"," ","d","i","s","c","o","n","n","e","c","t","e","d">>, 100),
          message |-> "could_not_determine", original_url |-> original_url,
          success_score |-> 0]
    ELSE _safe_process_response(site.after.content, site.after.url, original_url)

\* final_result of _safe_submit_with_browser
FinalResult(fill_result, submit_result, response_result, url) ==
    [success |-> Get(response_result, "success", FALSE),
     message |-> Get(response_result, "message", "form_submitted"),
     field_filling |-> fill_result,
     submission |-> submit_result,
     response |-> response_result,
     final_url |-> Get(response_result, "final_url", url)]

\* the part of _safe_submit_with_browser after the navigation
InteractWithForm(site, url, field_data, form_index) ==
    IF site.eles = "raises"
    THEN [success |-> FALSE,
          error |-> <<"F","o","r","m"," ","i","n","t","e","r","a","c","t","i","o","n"," ","f","a","i","l","e","d",":"," ">> \o Truncate(<<"e","l","e","m","e","n","t"," ","q","u","e","r","y"," ","t","i","m","e","d"," ","o","u","t">>, 100)]
    ELSE IF site.page.forms = <<>>
    THEN [success |-> FALSE, error |-> <<"N","o"," ","f","o","r","m","s"," ","f","o","u","n","d"," ","o","n"," ","t","h","e"," ","p","a","g","e">>]
    ELSE IF form_index >= Len(site.page.forms)
    THEN [success |-> FALSE,
          error |-> <<"F","o","r","m"," ","i","n","d","e","x"," ">> \o str(form_index) \o <<" ","n","o","t"," ","f","o","u","n","d","."," ","F","o","u","n","d"," ">>
                     \o str(Len(site.page.forms)) \o <<" ","f","o","r","m","s",".">>]
    ELSE IF ~InRange(site.page.forms, form_index)
    THEN [success |-> FALSE,
          error |-> <<"F","o","r","m"," ","i","n","t","e","r","a","c","t","i","o","n"," ","f","a","i","l","e","d",":"," ">> \o Truncate(<<"l","i","s","t"," ","i","n","d","e","x"," ","o","u","t"," ","o","f"," ","r","a","n","g","e">>, 100)]
    ELSE FinalResult(
            _safe_fill_form_fields(PyIndex(site.page.forms, form_index),
                                   site.form_eles = "raises",
                                   field_data),
            _safe_submit_form(site),
            ProcessResponseOf(site, url), url)

\* _safe_submit_with_browser once the browser is there or could not be built
SubmitAfterCreate(created, site, url, field_data, form_index) ==
    IF created.raised
    THEN Returned([success |-> FALSE,
                   error |-> <<"C","o","u","l","d"," ","n","o","t"," ","c","r","e","a","t","e"," ","b","r","o","w","s","e","r",":"," ">> \o Truncate(created.e, 100)],
                  created.scraper)
    ELSE IF ~created.value
    THEN Returned([success |-> FALSE,
                   error |-> <<"C","o","u","l","d"," ","n","o","t"," ","n","a","v","i","g","a","t","e"," ","t","o"," ","p","a","g","e",":"," ">>
                              \o Truncate(<<"'","N","o","n","e","T","y","p","e","'"," ","o","b","j","e","c","t"," ","h","a","s"," ","n","o"," ","a","t","t","r","i","b","u","t","e"," ","'","g","e","t","'">>, 100)],
                  [created.scraper EXCEPT !.browser_page = created.value])
    ELSE IF site.navigation = "fails"
    THEN Returned([success |-> FALSE,
                   error |-> <<"C","o","u","l","d"," ","n","o","t"," ","n","a","v","i","g","a","t","e"," ","t","o"," ","p","a","g","e",":"," ">>
                              \o Truncate(<<"P","a","g","e"," ","d","i","d"," ","n","o","t"," ","l","o","a","d"," ","p","r","o","p","e","r","l","y">>, 100)],
                  [created.scraper EXCEPT !.browser_page = created.value])
    ELSE Returned(InteractWithForm(site, url, field_data, form_index),
                  [created.scraper EXCEPT !.browser_page = created.value])

_safe_submit_with_browser(scraper, site, url, field_data, form_index) ==
    SubmitAfterCreate(
        IF scraper.browser_page THEN Returned(TRUE, scraper)
        ELSE _safe_create_browser(scraper, site),
        site, url, field_data, form_index)

(***************************************************************************)
(* The attempt history                                                     *)
(***************************************************************************)
\* BulletproofFormSubmitter._max_history
_max_history == 50

\* history[-n:]
Last(history, n) ==
    IF Len(history) <= n THEN history ELSE SubSeq(history, Len(history) - n + 1, Len(history))

\* variant: the record of a successful attempt dropped
_safe_record_attempt_OnlyFailures(history, now, url, field_data, result, attempt) ==
    IF Get(result, "success", FALSE) THEN history
    ELSE Last(Append(history,
                [timestamp |-> now, url |-> Truncate(url, 200), attempt |-> attempt,
                 success |-> FALSE,
                 error |-> IF Get(result, "error", <<>>) # <<>>
                           THEN Truncate(result.error, 200) ELSE <<>>,
                 field_count |-> Len(field_data),
                 method_used |-> Get(result, "method_used", "unknown"),
                 submission_time |-> Get(result, "submission_time", 0)]),
              _max_history)

\* variant: the oldest records kept, the newest dropped
_safe_record_attempt_KeepOldest(history, now, url, field_data, result, attempt) ==
    SubSeq(Append(history,
                [timestamp |-> now, url |-> Truncate(url, 200), attempt |-> attempt,
                 success |-> Get(result, "success", FALSE),
                 error |-> IF Get(result, "error", <<>>) # <<>>
                           THEN Truncate(result.error, 200) ELSE <<>>,
                 field_count |-> Len(field_data),
                 method_used |-> Get(result, "method_used", "unknown"),
                 submission_time |-> Get(result, "submission_time", 0)]),
           1, IF Len(history) + 1 <= _max_history THEN Len(history) + 1 ELSE _max_history)

\* variant: the record appended again when the list is trimmed
_safe_record_attempt_Twice(history, now, url, field_data, result, attempt) ==
    LET record == [timestamp |-> now, url |-> Truncate(url, 200), attempt |-> attempt,
                   success |-> Get(result, "success", FALSE),
                   error |-> IF Get(result, "error", <<>>) # <<>>
                             THEN Truncate(result.error, 200) ELSE <<>>,
                   field_count |-> Len(field_data),
                   method_used |-> Get(result, "method_used", "unknown"),
                   submission_time |-> Get(result, "submission_time", 0)]
    IN  IF Len(history) + 1 > _max_history
        THEN Last(Append(Append(history, record), record), _max_history)
        ELSE Append(history, record)

\* the history after the call; now is time.time()
_safe_record_attempt(history, now, url, field_data, result, attempt) ==
    Last(Append(history,
            [timestamp |-> now, url |-> Truncate(url, 200), attempt |-> attempt,
             success |-> Get(result, "success", FALSE),
             error |-> IF Get(result, "error", <<>>) # <<>>
                       THEN Truncate(result.error, 200) ELSE <<>>,
             field_count |-> Len(field_data),
             method_used |-> Get(result, "method_used", "unknown"),
             submission_time |-> Get(result, "submission_time", 0)]),
         _max_history)

\* EnhancedFormSubmitter keeps the last 100 records
enhanced_max_history == 100

_record_submission_attempt(history, now, url, field_data, result, attempt) ==
    Last(Append(history,
            [timestamp |-> now, url |-> url, attempt |-> attempt,
             success |-> Get(result, "success", FALSE),
             error |-> Get(result, "error", None),
             method |-> Get(result, "method_used", "unknown"),
             field_count |-> Len(field_data)]),
         enhanced_max_history)

(***************************************************************************)
(* EnhancedFormSubmitter: one attempt                                      *)
(***************************************************************************)
enhanced_success_phrases ==
    << <<"t","h","a","n","k"," ","y","o","u">>, <<"s","u","b","m","i","t","t","e","d"," ","s","u","c","c","e","s","s","f","u","l","l","y">>, <<"a","p","p","l","i","c","a","t","i","o","n"," ","r","e","c","e","i","v","e","d">>,
       <<"f","o","r","m"," ","s","u","b","m","i","t","t","e","d">>, <<"y","o","u","r"," ","a","p","p","l","i","c","a","t","i","o","n">>, <<"c","o","n","f","i","r","m","a","t","i","o","n">>,
       <<"w","e"," ","h","a","v","e"," ","r","e","c","e","i","v","e","d">>, <<"s","u","c","c","e","s","s","f","u","l","l","y"," ","s","e","n","t">>, <<"m","e","s","s","a","g","e"," ","s","e","n","t">>,
       <<"r","e","g","i","s","t","r","a","t","i","o","n"," ","c","o","m","p","l","e","t","e">>, <<"a","c","c","o","u","n","t"," ","c","r","e","a","t","e","d">>, <<"s","a","v","e","d"," ","s","u","c","c","e","s","s","f","u","l","l","y">>,
       <<"s","u","b","m","i","s","s","i","o","n"," ","s","u","c","c","e","s","s","f","u","l">>, <<"a","p","p","l","i","c","a","t","i","o","n"," ","s","u","b","m","i","t","t","e","d">>, <<"s","u","c","c","e","s","s">> >>

\* the keyword each regex keyword\s*#?\s*:?\s*([a-zA-Z0-9]+) starts with
enhanced_confirmation_patterns ==
    << <<"c","o","n","f","i","r","m","a","t","i","o","n">>, <<"r","e","f","e","r","e","n","c","e">>, <<"a","p","p","l","i","c","a","t","i","o","n">>, <<"t","i","c","k","e","t">> >>

\* re.search(keyword\s*#?\s*:?\s*([a-zA-Z0-9]+), content, re.IGNORECASE)
NumberPatternMatches(keyword, content) ==
    \E i \in Occurrences(keyword, lower(content)) :
        LET j == SkipSpaces(content, i + Len(keyword))
            k == IF j <= Len(content) /\ content[j] = "#"
                 THEN SkipSpaces(content, j + 1) ELSE j
            m == IF k <= Len(content) /\ content[k] = ":"
                 THEN SkipSpaces(content, k + 1) ELSE k
        IN  m <= Len(content) /\ IsAlnum(content[m])

\* the indicators are named by the phrase that was found
_detect_success_indicators(content, final_url, original_url) ==
    LET content_lower == lower(content) IN
    (IF final_url # original_url THEN << << "url_changed" >> >> ELSE <<>>)
        \o Filter([n \in 1..Len(enhanced_success_phrases) |->
                        << "success_text", enhanced_success_phrases[n] >>],
                  LAMBDA indicator : In(indicator[2], content_lower))
        \o (IF \E n \in 1..Len(enhanced_confirmation_patterns) :
                    NumberPatternMatches(enhanced_confirmation_patterns[n], content)
            THEN << << "confirmation_number_found" >> >> ELSE <<>>)

enhanced_error_phrases ==
    << <<"e","r","r","o","r">>, <<"f","a","i","l","e","d">>, <<"i","n","v","a","l","i","d">>, <<"r","e","q","u","i","r","e","d"," ","f","i","e","l","d">>, <<"m","i","s","s","i","n","g"," ","i","n","f","o","r","m","a","t","i","o","n">>,
       <<"p","l","e","a","s","e"," ","c","o","r","r","e","c","t">>, <<"t","r","y"," ","a","g","a","i","n">>, <<"s","u","b","m","i","s","s","i","o","n"," ","f","a","i","l","e","d">>, <<"c","o","u","l","d"," ","n","o","t"," ","s","u","b","m","i","t">>,
       <<"p","r","o","b","l","e","m"," ","o","c","c","u","r","r","e","d">>, <<"v","a","l","i","d","a","t","i","o","n"," ","e","r","r","o","r">>, <<"f","o","r","m"," ","e","r","r","o","r">>, <<"p","l","e","a","s","e"," ","f","i","x">> >>

_detect_error_indicators(content) ==
    LET content_lower == lower(content) IN
    Filter([n \in 1..Len(enhanced_error_phrases) |-> << "error_text", enhanced_error_phrases[n] >>],
           LAMBDA indicator : In(indicator[2], content_lower))
        \o (IF In(<<"c","l","a","s","s","=","\"","e","r","r","o","r","\"">>, content) \/ In(<<"c","l","a","s","s","=","\"","i","n","v","a","l","i","d","\"">>, content)
            THEN << << "html_error_classes" >> >> ELSE <<>>)

\* _process_submission_response with its handler; the messages by their kind
_process_submission_response(site, original_url) ==
    LET content == site.after.content
        final_url == site.after.url
        success_indicators == _detect_success_indicators(content, final_url, original_url)
        error_indicators == _detect_error_indicators(content)
        submission_success == Len(error_indicators) = 0 /\ Len(success_indicators) > 0
        result == [success |-> submission_success, original_url |-> original_url,
                   final_url |-> final_url, url_changed |-> final_url # original_url,
                   success_indicators |-> success_indicators,
                   error_indicators |-> error_indicators]
    IN  IF site.response_read = "raises"
        THEN [success |-> FALSE, error |-> <<"R","e","s","p","o","n","s","e"," ","p","r","o","c","e","s","s","i","n","g"," ","f","a","i","l","e","d",":"," ","p","a","g","e"," ","d","i","s","c","o","n","n","e","c","t","e","d">>]
        ELSE IF submission_success THEN Update(result, [message |-> <<"F","o","r","m"," ","s","u","b","m","i","t","t","e","d">>])
        ELSE Update(result,
                [error |-> IF error_indicators # <<>> THEN <<"E","r","r","o","r","s"," ","d","e","t","e","c","t","e","d">>
                           ELSE <<"N","o"," ","s","u","c","c","e","s","s"," ","c","o","n","f","i","r","m","a","t","i","o","n"," ","d","e","t","e","c","t","e","d">>,
                 message |-> IF error_indicators # <<>> THEN <<"E","r","r","o","r","s"," ","d","e","t","e","c","t","e","d">>
                             ELSE <<"N","o"," ","s","u","c","c","e","s","s"," ","c","o","n","f","i","r","m","a","t","i","o","n"," ","d","e","t","e","c","t","e","d">>])

\* _submit_with_session and _submit_with_browser: the method's context is
\* built, the page fetched, the form found and sent, the response read; any
\* exception becomes a failure result
SubmitWith(submission_method, site, url, field_data, form_index) ==
    LET session == submission_method = "http_session"
        prefix == IF session THEN <<"S","e","s","s","i","o","n"," ","s","u","b","m","i","s","s","i","o","n"," ","f","a","i","l","e","d",":"," ">>
                  ELSE <<"B","r","o","w","s","e","r"," ","s","u","b","m","i","s","s","i","o","n"," ","f","a","i","l","e","d",":"," ">>
    IN  IF (session /\ site.session = "raises") \/ (~session /\ site.browser = "raises")
        THEN [raised |-> FALSE,
              value |-> [success |-> FALSE, error |-> prefix \o <<"n","o"," ","c","o","n","t","e","x","t">>]]
        ELSE IF (session /\ site.session_get = "raises") \/ (~session /\ site.navigation = "fails")
        THEN [raised |-> FALSE,
              value |-> [success |-> FALSE, error |-> prefix \o <<"c","o","n","n","e","c","t","i","o","n"," ","r","e","f","u","s","e","d">>]]
        ELSE IF site.eles = "raises"
        THEN [raised |-> FALSE,
              value |-> [success |-> FALSE, error |-> prefix \o <<"e","l","e","m","e","n","t"," ","q","u","e","r","y"," ","t","i","m","e","d"," ","o","u","t">>]]
        ELSE IF form_index >= Len(site.page.forms)
        THEN [raised |-> FALSE,
              value |-> [success |-> FALSE,
                         error |-> <<"F","o","r","m"," ","i","n","d","e","x"," ">> \o str(form_index) \o <<" ","n","o","t"," ","f","o","u","n","d">>]]
        ELSE IF ~InRange(site.page.forms, form_index)
        THEN [raised |-> FALSE,
              value |-> [success |-> FALSE, error |-> prefix \o <<"l","i","s","t"," ","i","n","d","e","x"," ","o","u","t"," ","o","f"," ","r","a","n","g","e">>]]
        ELSE IF site.form_eles = "raises"
        THEN [raised |-> FALSE,
              value |-> [success |-> FALSE, error |-> prefix \o <<"e","l","e","m","e","n","t"," ","q","u","e","r","y"," ","t","i","m","e","d"," ","o","u","t">>]]
        ELSE [raised |-> FALSE, value |-> _process_submission_response(site, url)]

\* the results validate_submission_enhanced of EnhancedFormSubmitter returns:
\* the form could not be read, issues were found, or none was, after the
\* scraper used the session or the browser
EnhancedValidations ==
    { [valid |-> FALSE, issues |-> << "cannot_validate" >>, method_used |-> "unknown"],
      [valid |-> FALSE, issues |-> << "validation_error" >>],
      [valid |-> FALSE, issues |-> << "required_field_missing" >>, method_used |-> "browser_automation"],
      [valid |-> TRUE, issues |-> <<>>, method_used |-> "http_session"],
      [valid |-> TRUE, issues |-> <<>>, method_used |-> "browser_automation"] }

_determine_submission_method(validation) ==
    IF Get(validation, "method_used", "browser_automation") = "http_session"
    THEN "http_session" ELSE "browser_automation"

(***************************************************************************)
(* submit_form_enhanced: the retry loop, one step per stretch between the  *)
(* awaits of the attempts and the backoff sleeps                           *)
(***************************************************************************)
MaxRetries == 3     \* the largest max_retries the callers pass
MaxAttempts == 3    \* attempts all calls on one instance may use together

Milliseconds == 1000

\* variant: the exponential backoff of EnhancedFormSubmitter, without jitter
WaitTime_PowerOfTwo(attempt) == 2 ^ attempt

\* wait_time = min((attempt + 1) * 2, 10), in seconds
WaitTime(attempt) == IF (attempt + 1) * 2 < 10 THEN (attempt + 1) * 2 ELSE 10

\* a page with one form of two fields, and the pages a submission leads to
FormPage ==
    [content |-> <<"C","o","n","t","a","c","t"," ","u","s">>, url |-> <<"/","f","o","r","m">>, status |-> 200,
     forms |-> << << [Element("input", <<"e","m","a","i","l">>, <<"e","m","a","i","l">>, <<>>, TRUE, FALSE) EXCEPT !.required = TRUE],
                     Element("input", <<"t","e","x","t">>, <<"u","s","e","r","_","e","m","a","i","l">>, <<>>, TRUE, FALSE) >> >>]

AfterPages ==
    { [content |-> <<"T","h","a","n","k"," ","y","o","u">>, url |-> <<"/","d","o","n","e">>],
      [content |-> <<"e","r","r","o","r",":"," ","t","r","y"," ","a","g","a","i","n">>, url |-> <<"/","f","o","r","m">>],
      [content |-> <<"C","o","n","t","a","c","t"," ","u","s">>, url |-> <<"/","f","o","r","m">>] }

\* a site where every lower layer works
WorkingSite ==
    [drissionpage |-> TRUE, session |-> "ok", browser |-> "ok", session_get |-> "ok",
     browser_get |-> "ok", refetch |-> "ok", page |-> FormPage,
     navigation |-> "loads", eles |-> "ok", form_eles |-> "ok", tactic |-> "submit_button",
     response_read |-> "ok", after |-> CHOOSE page \in AfterPages : page.url = <<"/","d","o","n","e">>]

\* the sites of the retry specification: the working site with each page it
\* may lead to, and the site with one layer failing
Sites ==
    {[WorkingSite EXCEPT !.after = page] : page \in AfterPages}
        \cup {[WorkingSite EXCEPT !.browser = "raises"],
              [WorkingSite EXCEPT !.navigation = "fails"],
              [WorkingSite EXCEPT !.response_read = "raises"]}

SubmitUrls == { <<"/","f","o","r","m">>, <<>> }
SubmitDatas == { <<>>, << [k |-> <<"e","m","a","i","l">>, v |-> <<"a","@","b",".","c">>] >> }
NameOrders == { << <<"e","m","a","i","l">>, <<"u","s","e","r","_","e","m","a","i","l">> >>, << <<"u","s","e","r","_","e","m","a","i","l">>, <<"e","m","a","i","l">> >> }

Classes == {"BulletproofFormSubmitter", "EnhancedFormSubmitter"}

\* the result of an attempt on a host without a browser, as each class builds it
NoBrowserResult(class) ==
    IF class = "BulletproofFormSubmitter"
    THEN _safe_submit_with_browser(NewScraper, [WorkingSite EXCEPT !.browser = "raises"],
                                   <<"/","f","o","r","m">>, << [k |-> <<"e","m","a","i","l">>, v |-> <<"a","@","b",".","c">>] >>, 0).value
    ELSE SubmitWith("browser_automation", [WorkingSite EXCEPT !.browser = "raises"],
                    <<"/","f","o","r","m">>, << [k |-> <<"e","m","a","i","l">>, v |-> <<"a","@","b",".","c">>] >>, 0).value

Record(class, history, now, url, field_data, result, attempt) ==
    IF class = "BulletproofFormSubmitter"
    THEN _safe_record_attempt(history, now, url, field_data, result, attempt)
    ELSE _record_submission_attempt(history, now, url, field_data, result, attempt)

\* the history after k earlier calls with max_retries = 1 on a host without a
\* browser, the n-th at time n; k is below the cap, so no record was evicted
HistoryAfter(class, k) ==
    [n \in 1..k |->
        Record(class, <<>>, n, <<"/","f","o","r","m">>, << [k |-> <<"e","m","a","i","l">>, v |-> <<"a","@","b",".","c">>] >>,
               NoBrowserResult(class), 1)[1]]

\* the scraper after those calls: their validation built the session
ScraperAfter(class, k) ==
    IF k = 0 \/ class # "BulletproofFormSubmitter" THEN NewScraper
    ELSE validate_submission_enhanced(NewScraper, [WorkingSite EXCEPT !.browser = "raises"],
            <<"/","f","o","r","m">>, Dict(<< [k |-> <<"e","m","a","i","l">>, v |-> <<"a","@","b",".","c">>] >>), 0,
            << <<"e","m","a","i","l">>, <<"u","s","e","r","_","e","m","a","i","l">> >>).scraper

\* how many such calls came before the ones the specification follows
EarlierCalls(class) ==
    IF class = "BulletproofFormSubmitter" THEN {0, _max_history - 1}
    ELSE {0, _max_history - 1, enhanced_max_history - 1}

\* what the observer notes of a record
Seen(record) ==
    [timestamp |-> record.timestamp, attempt |-> record.attempt, success |-> record.success]

Idle == [pc |-> "idle"]

Init ==
    /\ arg = NoCall
    /\ res = NoCall
    /\ \E class \in Classes : \E k \in EarlierCalls(class) :
        /\ submitter = [class |-> class, submission_history |-> HistoryAfter(class, k),
                        scraper |-> ScraperAfter(class, k)]
        /\ trace = [now |-> k + 1, began |-> k + 1, started |-> 0, used |-> 0, slept |-> <<>>,
                    finished |-> [n \in 1..k |->
                                    [timestamp |-> n, attempt |-> 1, success |-> FALSE]],
                    methods |-> <<>>]
    /\ frame = Idle

Bulletproof == submitter.class = "BulletproofFormSubmitter"
Enhanced == submitter.class = "EnhancedFormSubmitter"

\* what a call takes of the attempts the calls may use together: its
\* ceiling, and 1 for a call that may make no attempt
Reserves(max_retries) == IF max_retries = 0 THEN 1 ELSE max_retries

\* the call is made: the observer starts a new page
Called(max_retries) ==
    [trace EXCEPT !.began = trace.now, !.started = 0, !.slept = <<>>,
                  !.used = @ + Reserves(max_retries)]

\* result of submit_form_enhanced before the retry loop
BaseResult ==
    [success |-> FALSE, message |-> "in_progress", method_used |-> "unknown",
     attempts |-> 0, error |-> None, submission_time |-> 0, validation |-> None]

\* the try block around the pre-submission validation
ResultWithValidation(validated) ==
    IF validated.raised
    THEN Update(BaseResult,
            [validation |-> [valid |-> FALSE, error |-> Truncate(validated.e, 100)]])
    ELSE IF Get(validated.value, "valid", FALSE)
    THEN Update(BaseResult, [validation |-> validated.value])
    ELSE Update(BaseResult,
            [validation |-> validated.value,
             warnings |-> Get(validated.value, "issues", <<>>)])

\* range(0) is empty: the loop is passed over, and "All attempts failed"
\* follows at once with last_error = None
NoAttemptResult(result) ==
    Update(result,
        [success |-> FALSE, message |-> "failed_after_attempts",
         method_used |-> "failed_all_attempts", error |-> None, submission_time |-> 0])

\* the sites a call may meet: the one site of a world that does not change,
\* or any site
SitesNow == IF "site" \in DOMAIN trace THEN {trace.site} ELSE Sites

\* BulletproofFormSubmitter.submit_form_enhanced up to the retry loop
SubmitCall ==
    /\ Bulletproof
    /\ frame.pc = "idle"
    /\ \E url \in SubmitUrls, field_data \in SubmitDatas, max_retries \in 0..MaxRetries,
          site \in SitesNow, order \in NameOrders :
        /\ trace.used + Reserves(max_retries) <= MaxAttempts
        /\ arg' = [op |-> "submit", url |-> url, field_data |-> field_data,
                   form_index |-> 0, max_retries |-> max_retries]
        /\ trace' = Called(max_retries)
        /\ IF url = <<>> \/ field_data = <<>>
           THEN /\ res' = Update(BaseResult,
                            [success |-> FALSE,
                             error |-> <<"I","n","v","a","l","i","d"," ","i","n","p","u","t",":"," ","U","R","L"," ","a","n","d"," ","f","i","e","l","d","_","d","a","t","a"," ","a","r","e"," ","r","e","q","u","i","r","e","d">>,
                             message |-> "invalid_input"])
                /\ UNCHANGED <<submitter, frame>>
           ELSE \E validated \in {validate_submission_enhanced(submitter.scraper, site, url,
                                                                Dict(field_data), 0, order)} :
                /\ submitter' = [submitter EXCEPT !.scraper = validated.scraper]
                /\ IF max_retries = 0
                   THEN /\ res' = NoAttemptResult(ResultWithValidation(validated))
                        /\ UNCHANGED frame
                   ELSE /\ res' = NoCall
                        /\ frame' = [pc |-> "loop", attempt |-> 0, last_error |-> None,
                                     result |-> ResultWithValidation(validated)]

\* EnhancedFormSubmitter.submit_form_enhanced up to the retry loop
EnhancedSubmitCall ==
    /\ Enhanced
    /\ frame.pc = "idle"
    /\ \E url \in SubmitUrls \ {<<>>}, field_data \in SubmitDatas \ {<<>>},
          max_retries \in 0..MaxRetries, validation \in EnhancedValidations :
        /\ trace.used + Reserves(max_retries) <= MaxAttempts
        /\ arg' = [op |-> "submit", url |-> url, field_data |-> field_data,
                   form_index |-> 0, max_retries |-> max_retries]
        /\ trace' = [Called(max_retries) EXCEPT !.methods = <<>>]
        /\ IF ~Get(validation, "valid", FALSE)
           THEN /\ res' = [success |-> FALSE, error |-> <<"F","o","r","m"," ","v","a","l","i","d","a","t","i","o","n"," ","f","a","i","l","e","d">>,
                           validation |-> validation]
                /\ UNCHANGED <<submitter, frame>>
           ELSE IF max_retries = 0
           THEN /\ res' = [success |-> FALSE, error |-> <<"A","l","l"," ","a","t","t","e","m","p","t","s"," ","f","a","i","l","e","d">>,
                           validation |-> validation, attempts |-> max_retries]
                /\ UNCHANGED <<submitter, frame>>
           ELSE /\ res' = NoCall
                /\ frame' = [pc |-> "loop", attempt |-> 0, validation |-> validation,
                             submission_method |-> _determine_submission_method(validation)]
                /\ UNCHANGED submitter

\* for attempt in range(max_retries): the attempt starts
BeginAttempt ==
    /\ frame.pc = "loop"
    /\ frame.attempt < arg.max_retries
    /\ frame' = IF Bulletproof
                THEN [frame EXCEPT !.pc = "submitting", !.result.attempts = frame.attempt + 1]
                ELSE [frame EXCEPT !.pc = "submitting"]
    /\ trace' = [trace EXCEPT !.started = @ + 1]
    /\ UNCHANGED <<arg, res, submitter>>

\* the observer notes the attempt that finished and the time it took
Finished(success) ==
    [trace EXCEPT !.now = @ + 1,
                  !.finished = Append(@, [timestamp |-> trace.now, attempt |-> frame.attempt + 1,
                                          success |-> success])]

\* "All attempts failed": the end of BulletproofFormSubmitter.submit_form_enhanced
FailedAllAttempts(result, last_error) ==
    Update(result,
        [success |-> FALSE, message |-> "failed_after_attempts",
         method_used |-> "failed_all_attempts", error |-> last_error,
         submission_time |-> trace.now + 1 - trace.began])

\* a round of the loop that ends in its except branch: nothing is recorded
AttemptCrashed(e) ==
    /\ UNCHANGED submitter
    /\ \E last_error \in {<<"A","t","t","e","m","p","t"," ">> \o str(frame.attempt + 1) \o <<" ","c","r","a","s","h","e","d",":"," ">> \o Truncate(e, 100)} :
        IF frame.attempt < arg.max_retries - 1
        THEN /\ res' = res
             /\ frame' = [frame EXCEPT !.pc = "sleeping", !.last_error = last_error,
                                       !.result.error = last_error]
             /\ trace' = [Finished(FALSE) EXCEPT !.slept = Append(@, 2 * Milliseconds),
                                                 !.now = @ + 2]
        ELSE /\ res' = FailedAllAttempts([frame.result EXCEPT !.error = last_error], last_error)
             /\ frame' = Idle
             /\ trace' = Finished(FALSE)

\* a round of the loop whose browser attempt returned: it is recorded, and the
\* call returns or sleeps
AttemptReturned(submitted) ==
    \E success \in {Get(submitted.value, "success", FALSE)},
       last_error \in {Get(submitted.value, "error", <<"U","n","k","n","o","w","n"," ","s","u","b","m","i","s","s","i","o","n"," ","e","r","r","o","r">>)} :
        /\ submitter' =
            [submitter EXCEPT
                !.scraper = submitted.scraper,
                !.submission_history =
                    _safe_record_attempt(@, trace.now, arg.url, arg.field_data,
                                         submitted.value, frame.attempt + 1)]
        /\ IF success
           THEN /\ res' = Update(Update(frame.result, submitted.value),
                                 [method_used |-> "browser_automation",
                                  submission_time |-> trace.now + 1 - trace.began])
                /\ frame' = Idle
                /\ trace' = Finished(success)
           ELSE IF frame.attempt < arg.max_retries - 1
           THEN /\ res' = res
                /\ frame' = [frame EXCEPT !.pc = "sleeping", !.last_error = last_error,
                                          !.result.error = last_error]
                /\ trace' = [Finished(success) EXCEPT
                                !.slept = Append(@, WaitTime(frame.attempt) * Milliseconds),
                                !.now = @ + WaitTime(frame.attempt)]
           ELSE /\ res' = FailedAllAttempts([frame.result EXCEPT !.error = last_error],
                                            last_error)
                /\ frame' = Idle
                /\ trace' = Finished(success)

\* the rest of a round of the loop of BulletproofFormSubmitter
FinishAttempt ==
    /\ Bulletproof
    /\ frame.pc = "submitting"
    /\ \E site \in SitesNow :
       \E submitted \in {_safe_submit_with_browser(submitter.scraper, site, arg.url,
                                                   arg.field_data, arg.form_index)} :
        IF submitted.raised THEN AttemptCrashed(submitted.e) ELSE AttemptReturned(submitted)
    /\ UNCHANGED arg

\* random.uniform(0, 1) seconds, at its ends
Jitter == {0, Milliseconds}

\* the return after the loop of EnhancedFormSubmitter.submit_form_enhanced
EnhancedFailed(error) ==
    [success |-> FALSE, error |-> error, validation |-> frame.validation,
     attempts |-> arg.max_retries]

\* variant: the method is kept after a failure
SwitchedMethod_Kept(submission_method) == submission_method

\* "Switch methods on failure": the method of the round after a failed one
SwitchedMethod(submission_method) ==
    IF submission_method = "http_session" THEN "browser_automation" ELSE submission_method

\* the observer notes the attempt that finished and the method it used
EnhancedFinished(success) ==
    [Finished(success) EXCEPT !.methods = Append(@, frame.submission_method)]

\* the rest of a round of the loop of EnhancedFormSubmitter
EnhancedFinishAttempt ==
    /\ Enhanced
    /\ frame.pc = "submitting"
    /\ \E site \in Sites, jitter \in Jitter :
       \E result \in {SubmitWith(frame.submission_method, site, arg.url, arg.field_data,
                                 arg.form_index)} :
        IF result.raised
        THEN /\ UNCHANGED submitter
             /\ trace' = EnhancedFinished(FALSE)
             /\ IF frame.attempt = arg.max_retries - 1
                THEN /\ res' = EnhancedFailed(<<"A","l","l"," ","a","t","t","e","m","p","t","s"," ","f","a","i","l","e","d","."," ","F","i","n","a","l"," ","e","r","r","o","r",":"," ">> \o result.e)
                     /\ frame' = Idle
                ELSE /\ res' = res
                     /\ frame' = [frame EXCEPT !.pc = "sleeping"]
        ELSE
        /\ submitter' =
            [submitter EXCEPT !.submission_history =
                _record_submission_attempt(@, trace.now, arg.url, arg.field_data,
                                           result.value, frame.attempt + 1)]
        /\ IF Get(result.value, "success", FALSE)
           THEN /\ res' = Update(result.value,
                            [validation |-> frame.validation, attempts |-> frame.attempt + 1,
                             method_used |-> frame.submission_method])
                /\ frame' = Idle
                /\ trace' = EnhancedFinished(TRUE)
           ELSE IF frame.attempt < arg.max_retries - 1
           THEN /\ res' = res
                /\ frame' = [frame EXCEPT !.pc = "sleeping",
                                          !.submission_method = SwitchedMethod(@)]
                /\ trace' = [EnhancedFinished(FALSE) EXCEPT
                                !.slept = Append(@, (2 ^ frame.attempt) * Milliseconds + jitter),
                                !.now = @ + 2 ^ frame.attempt + 1]
           ELSE /\ res' = EnhancedFailed(<<"A","l","l"," ","a","t","t","e","m","p","t","s"," ","f","a","i","l","e","d">>)
                /\ frame' = Idle
                /\ trace' = EnhancedFinished(FALSE)
    /\ UNCHANGED arg

\* asyncio.sleep(wait_time) is over: the next round
Wake ==
    /\ frame.pc = "sleeping"
    /\ frame' = [frame EXCEPT !.pc = "loop", !.attempt = @ + 1]
    /\ UNCHANGED <<arg, res, submitter, trace>>

Next ==
    \/ SubmitCall
    \/ EnhancedSubmitCall
    \/ BeginAttempt
    \/ FinishAttempt
    \/ EnhancedFinishAttempt
    \/ Wake

Spec == Init /\ [][Next]_vars

(***************************************************************************)
(* The public operations of the bulletproof scraper and submitter, called  *)
(* one after another on one instance, under every combination of failures  *)
(* of the lower layers                                                     *)
(***************************************************************************)
\* pages: the form page, a page behind a captcha, a page without a form
OpPages ==
    { FormPage,
      [FormPage EXCEPT !.content = <<"c","a","p","t","c","h","a">>],
      [content |-> <<"C","o","n","t","a","c","t"," ","u","s">>, url |-> <<"/","f","o","r","m">>, status |-> 200, forms |-> <<>>] }

OpWebs ==
    { [WorkingSite EXCEPT !.drissionpage = drissionpage, !.session = session,
                          !.browser = browser, !.session_get = session_get,
                          !.browser_get = browser_get, !.refetch = refetch, !.page = page] :
        drissionpage \in BOOLEAN, session \in {"ok", "raises"}, browser \in {"ok", "raises"},
        session_get \in {"ok", "raises"}, browser_get \in {"ok", "raises"},
        refetch \in {"ok", "raises"}, page \in OpPages }

OpUrls == { <<"/","f","o","r","m">>, <<>> }
OpFormIndexes == {0, 1}
OpDatas == { Dict(<<>>), Dict(<< [k |-> <<"e","m","a","i","l">>, v |-> <<"a","@","b",".","c">>] >>),
             Dict(<< [k |-> <<"e","m","a","i","l">>, v |-> <<"n","o","b","o","d","y">> ] >>), Number(0), Number(5) }

InitOps ==
    /\ arg = NoCall
    /\ res = NoCall
    /\ submitter = [class |-> "BulletproofFormSubmitter", submission_history |-> <<>>,
                    scraper |-> NewScraper]
    /\ trace = [now |-> 1, began |-> 1, started |-> 0, used |-> 0, slept |-> <<>>,
                finished |-> <<>>]
    /\ frame = Idle

\* what the caller of an operation gets: the value returned, or the exception
Outcome(call) ==
    IF call.raised THEN [raised |-> TRUE, e |-> call.e]
    ELSE [raised |-> FALSE, value |-> call.value]

\* the operation is called and returns or raises
OpDone(op, url, call) ==
    /\ arg' = [op |-> op, url |-> url]
    /\ res' = Outcome(call)
    /\ submitter' = [submitter EXCEPT !.scraper = call.scraper]
    /\ trace' = [trace EXCEPT !.used = @ + 1]
    /\ UNCHANGED frame

\* BulletproofFormScraper.test_url_accessibility_enhanced
ProbeCall ==
    /\ frame.pc = "idle"
    /\ trace.used + 1 <= MaxAttempts
    /\ \E url \in OpUrls, web \in OpWebs :
       \E call \in {test_url_accessibility_enhanced(submitter.scraper, web, url)} :
        OpDone("probe", url, call)

\* BulletproofFormScraper.extract_form_fields_enhanced
ExtractCall ==
    /\ frame.pc = "idle"
    /\ trace.used + 1 <= MaxAttempts
    /\ \E url \in OpUrls, web \in OpWebs, form_index \in OpFormIndexes :
       \E call \in {extract_form_fields_enhanced(submitter.scraper, web, url, form_index)} :
        OpDone("extract", url, call)

\* BulletproofFormSubmitter.validate_submission_enhanced
ValidateCall ==
    /\ frame.pc = "idle"
    /\ trace.used + 1 <= MaxAttempts
    /\ \E url \in OpUrls, web \in OpWebs, form_index \in OpFormIndexes,
          field_data \in OpDatas, order \in NameOrders :
       \E call \in {validate_submission_enhanced(submitter.scraper, web, url, field_data,
                                                 form_index, order)} :
        OpDone("validate", url, call)

NextOps ==
    \/ ProbeCall
    \/ ExtractCall
    \/ ValidateCall
    \/ SubmitCall
    \/ BeginAttempt
    \/ FinishAttempt
    \/ Wake

SpecOps == InitOps /\ [][NextOps]_vars

\* the flag of the result of each operation
Flag == [probe |-> "accessible", extract |-> "success", validate |-> "valid"]

\* C4: an operation that was called has not raised, and what it returned
\* holds its flag, TRUE or FALSE
C4_NeverRaises ==
    /\ arg.op \in DOMAIN Flag
        => /\ ~res.raised
           /\ Flag[arg.op] \in DOMAIN res.value
           /\ res.value[Flag[arg.op]] \in BOOLEAN
    /\ (arg.op = "submit" /\ frame.pc = "idle")
        => /\ "success" \in DOMAIN res
           /\ res.success \in BOOLEAN

(***************************************************************************)
(* The retry loop and the history, as the callers of submit_form_enhanced  *)
(* see them                                                                *)
(***************************************************************************)
history == submitter.submission_history

\* the records of the history made since the call in progress, or the last
\* call, was made
OfThisCall == SelectSeq(history, LAMBDA record : record.timestamp >= trace.began)

Attempts(records) == [i \in 1..Len(records) |-> records[i].attempt]

\* C1: a call of BulletproofFormSubmitter.submit_form_enhanced whose attempts
\* all fail makes exactly max_retries attempts, recorded with the ordinals
\* 1..max_retries; it waits 2 s after the first and 4 s after the second, no
\* wait is longer than 10 s, and it does not wait after the last attempt
C1_RetryCeilingAndWaits ==
    (/\ Bulletproof
     /\ arg.op = "submit"
     /\ arg.max_retries >= 1
     /\ frame.pc = "idle"
     /\ Get(res, "method_used", "") = "failed_all_attempts")
    => /\ trace.started = arg.max_retries
       /\ res.attempts = arg.max_retries
       /\ Attempts(OfThisCall) = [i \in 1..arg.max_retries |-> i]
       /\ Len(trace.slept) = arg.max_retries - 1
       /\ \A i \in 1..Len(trace.slept) :
            /\ trace.slept[i] <= 10 * Milliseconds
            /\ i = 1 => trace.slept[i] = 2 * Milliseconds
            /\ i = 2 => trace.slept[i] = 4 * Milliseconds

\* C1: a call with max_retries = 3 has failed three times and returned
C1_Witness ==
    /\ Bulletproof
    /\ arg.op = "submit"
    /\ arg.max_retries = 3
    /\ frame.pc = "idle"
    /\ Get(res, "method_used", "") = "failed_all_attempts"
    /\ trace.slept = << 2 * Milliseconds, 4 * Milliseconds >>

\* C5 as stated: the history of a submitter never holds more than 50 records,
\* and holds the most recent attempts in the order they were made
C5_AsStated ==
    /\ Len(history) <= _max_history
    /\ [i \in 1..Len(history) |-> Seen(history[i])] = Last(trace.finished, _max_history)

\* the cap of the history of each class
Cap == IF Bulletproof THEN _max_history ELSE enhanced_max_history

\* C5: the history of a BulletproofFormSubmitter never holds more than 50
\* records and that of an EnhancedFormSubmitter never more than 100, and it
\* holds the most recent attempts in the order they were made
C5_CapPerClass ==
    /\ Len(history) <= Cap
    /\ [i \in 1..Len(history) |-> Seen(history[i])] = Last(trace.finished, Cap)

\* C5: more attempts were made than the history holds, so the oldest were evicted
C5_Witness ==
    /\ Bulletproof
    /\ Len(trace.finished) > _max_history
    /\ Len(history) = _max_history

SubmitReturned ==
    /\ arg.op = "submit"
    /\ frame.pc = "idle"
    /\ arg.url # <<>>
    /\ arg.field_data # <<>>

\* C21: whatever the pre-flight validation gives, submit goes on to its
\* first attempt, and the issues of the validation are in the result as
\* warnings only
C21_ValidationNeverBlocks ==
    SubmitReturned
    => /\ trace.started >= 1
       /\ ("validation" \in DOMAIN res /\ ~Get(res.validation, "valid", FALSE)
              /\ "issues" \in DOMAIN res.validation)
            => Get(res, "warnings", <<>>) = res.validation.issues

\* what the observer noted of the attempts of the call in progress, or of the
\* last call
FinishedOfThisCall == SelectSeq(trace.finished, LAMBDA noted : noted.timestamp >= trace.began)

\* submit_form_enhanced of either class makes at most max_retries attempts,
\* none after an attempt that succeeded, and the result it returns has an
\* attempts value equal to the number of attempts it made
AttemptsCountedByLoop ==
    /\ arg.op = "submit" => trace.started <= arg.max_retries
    /\ arg.op = "submit"
        => \A i \in 1..Len(FinishedOfThisCall) :
                FinishedOfThisCall[i].success => i = Len(FinishedOfThisCall)
    /\ (arg.op = "submit" /\ frame.pc = "idle")
        => /\ "attempts" \in DOMAIN res
           /\ res.attempts = trace.started

\* a call of EnhancedFormSubmitter.submit_form_enhanced is in progress or
\* has returned
EnhancedSubmit == Enhanced /\ arg.op = "submit"

\* the call has returned a failure after at least one attempt
GaveUp == EnhancedSubmit /\ frame.pc = "idle" /\ ~res.success /\ trace.methods # <<>>

\* after an attempt with the session the next attempt of the call uses the
\* browser, and after one with the browser every later one does
SwitchesOnce ==
    \A i \in 1..(Len(trace.methods) - 1) : trace.methods[i + 1] = "browser_automation"

UsedBrowser == \E i \in 1..Len(trace.methods) : trace.methods[i] = "browser_automation"

\* C26 as stated: the next attempt after a failed one with the session uses
\* the browser, the method never goes back to the session, and no call
\* gives up having used only the session
C26_AsStated ==
    /\ EnhancedSubmit => SwitchesOnce
    /\ GaveUp => UsedBrowser

\* C26: the next attempt after a failed one with the session uses the
\* browser, the method never goes back to the session, and a call with
\* max_retries of 2 or more does not give up having used only the session
C26_SwitchToBrowser ==
    /\ EnhancedSubmit => SwitchesOnce
    /\ (GaveUp /\ arg.max_retries >= 2) => UsedBrowser

\* C26: a call gave up after an attempt with the session and one with the
\* browser
C26_Witness ==
    /\ GaveUp
    /\ Len(trace.methods) >= 2
    /\ trace.methods[1] = "http_session"
    /\ trace.methods[2] = "browser_automation"

(***************************************************************************)
(* The public operations of the bulletproof scraper and submitter called   *)
(* one after another against one site that does not change                 *)
(***************************************************************************)
\* the pages of a server that answers 403: the body the server sends with
\* it, and a body that names no barrier
ForbiddenPages ==
    { [content |-> <<"4","0","3"," ","F","o","r","b","i","d","d","e","n">>, url |-> <<"/","f","o","r","m">>, status |-> 403, forms |-> <<>>],
      [content |-> <<"S","o","r","r","y">>, url |-> <<"/","f","o","r","m">>, status |-> 403, forms |-> <<>>] }

StablePages == OpPages \cup ForbiddenPages

StableSites ==
    { [WorkingSite EXCEPT !.drissionpage = drissionpage, !.session = session,
                          !.browser = browser, !.session_get = session_get,
                          !.browser_get = browser_get, !.refetch = refetch, !.page = page] :
        drissionpage \in BOOLEAN, session \in {"ok", "raises"}, browser \in {"ok", "raises"},
        session_get \in {"ok", "raises"}, browser_get \in {"ok", "raises"},
        refetch \in {"ok", "raises"}, page \in StablePages }

\* the get() of one try block of the probe, if the block came to it
FetchOf(method, attempt) ==
    IF ~attempt.raised THEN << [strategy |-> method, failed |-> FALSE] >>
    ELSE IF attempt.e = <<"c","o","n","n","e","c","t","i","o","n"," ","r","e","f","u","s","e","d">> THEN << [strategy |-> method, failed |-> TRUE] >>
    ELSE <<>>

\* the calls of get() that test_url_accessibility_enhanced makes, in order
ProbeFetches(scraper, web, url) ==
    LET session == ProbeWith("http_session", scraper, web, url)
        browser == ProbeWith("browser_automation", session.scraper, web, url)
    IN  FetchOf("http_session", session)
        \o (IF session.raised THEN FetchOf("browser_automation", browser)
            ELSE IF session.value.barriers # <<>> THEN FetchOf("browser_automation", browser)
            ELSE <<>>)

\* those of extract_form_fields_enhanced: the probe of its analysis, then the
\* get() of the reader of the fields, if extracted came to one
ExtractFetches(extracted, scraper, web, url) ==
    ProbeFetches(scraper, web, url)
    \o (IF extracted.raised THEN <<>>
        ELSE IF ~extracted.value.success THEN <<>>
        ELSE IF extracted.value.method_used \in {"http_session", "http_session_fallback"}
        THEN << [strategy |-> "http_session",
                 failed |-> web.session_get = "raises" \/ web.refetch = "raises"] >>
        ELSE << [strategy |-> "browser_automation",
                 failed |-> web.browser_get = "raises" \/ web.refetch = "raises"] >>)

\* the site is chosen once; previous is the call before the last one and what
\* it gave, fetched the calls of get() the last call made
InitStable ==
    /\ arg = NoCall
    /\ res = NoCall
    /\ submitter = [class |-> "BulletproofFormSubmitter", submission_history |-> <<>>,
                    scraper |-> NewScraper]
    /\ \E site \in StableSites :
        trace = [now |-> 1, began |-> 1, started |-> 0, used |-> 0, slept |-> <<>>,
                 finished |-> <<>>, site |-> site,
                 previous |-> [arg |-> NoCall, res |-> NoCall], fetched |-> <<>>]
    /\ frame = Idle

\* the operation is called and returns or raises
StableDone(call_arg, call, fetches) ==
    /\ arg' = call_arg
    /\ res' = Outcome(call)
    /\ submitter' = [submitter EXCEPT !.scraper = call.scraper]
    /\ trace' = [trace EXCEPT !.previous = [arg |-> arg, res |-> res], !.fetched = fetches]
    /\ UNCHANGED frame

\* BulletproofFormScraper.test_url_accessibility_enhanced
StableProbe ==
    /\ frame.pc = "idle"
    /\ \E url \in OpUrls :
       \E call \in {test_url_accessibility_enhanced(submitter.scraper, trace.site, url)} :
        StableDone([op |-> "probe", url |-> url], call,
                   ProbeFetches(submitter.scraper, trace.site, url))

\* the indexes asked for: below the forms of the page, among them, above them
StableFormIndexes == {-2, -1, 0, 1}

\* BulletproofFormScraper.extract_form_fields_enhanced
StableExtract ==
    /\ frame.pc = "idle"
    /\ \E url \in OpUrls, form_index \in StableFormIndexes :
       \E call \in {extract_form_fields_enhanced(submitter.scraper, trace.site, url,
                                                 form_index)} :
        StableDone([op |-> "extract", url |-> url, form_index |-> form_index], call,
                   ExtractFetches(call, submitter.scraper, trace.site, url))

StableDatas == { Dict(<<>>), Dict(<< [k |-> <<"e","m","a","i","l">>, v |-> <<"a","@","b",".","c">>] >>) }

\* BulletproofFormSubmitter.validate_submission_enhanced: it fetches through
\* extract_form_fields_enhanced, when its inputs let it come to that
StableValidate ==
    /\ frame.pc = "idle"
    /\ \E url \in OpUrls, form_index \in {0}, field_data \in StableDatas :
       \E call \in {validate_submission_enhanced(submitter.scraper, trace.site, url,
                                                 field_data, form_index,
                                                 << <<"e","m","a","i","l">>, <<"u","s","e","r","_","e","m","a","i","l">> >>)} :
        StableDone([op |-> "validate", url |-> url, form_index |-> form_index,
                    field_data |-> field_data], call,
                   IF url = <<>> \/ ~Truth(field_data) THEN <<>>
                   ELSE ExtractFetches(
                            extract_form_fields_enhanced(submitter.scraper, trace.site, url,
                                                         form_index),
                            submitter.scraper, trace.site, url))

NextStable ==
    \/ StableProbe
    \/ StableExtract
    \/ StableValidate

SpecStable == InitStable /\ [][NextStable]_vars

\* C11: a probe of a URL whose fetch returns HTTP status 403 reports exactly
\* the barrier http_error_403, is not accessible, and gives a success
\* probability of at most 0.3
C11_Forbidden ==
    (arg.op = "probe" /\ trace.site.page.status = 403 /\ ~res.raised
        /\ res.value.method_used \in {"http_session", "browser_automation"})
    => /\ res.value.barriers = << "http_error_403" >>
       /\ ~res.value.accessible
       /\ res.value.success_probability <= 30

\* the last two calls were probes of the same URL and both returned
ProbedTwice ==
    /\ arg.op = "probe"
    /\ trace.previous.arg.op = "probe"
    /\ trace.previous.arg.url = arg.url
    /\ ~res.raised
    /\ ~trace.previous.res.raised

BarrierSet(report) == {report.barriers[n] : n \in 1..Len(report.barriers)}

AccessibleAbove == 60

\* the last call was an extract that followed a probe of the same URL, and
\* it went on to read the fields of a form
ExtractedAfterProbe ==
    /\ arg.op = "extract"
    /\ trace.previous.arg.op = "probe"
    /\ trace.previous.arg.url = arg.url
    /\ ~res.raised
    /\ ~trace.previous.res.raised
    /\ res.value.success

\* C14: in every report of a probe the accessible flag is true exactly when
\* the success probability is above 0.6, and an extract goes on to read a
\* form only when the report of the probe is such
C14_AccessibleIffScore ==
    /\ (arg.op = "probe" /\ ~res.raised)
        => (res.value.accessible <=> res.value.success_probability > AccessibleAbove)
    /\ ExtractedAfterProbe
        => trace.previous.res.value.success_probability > AccessibleAbove

\* the result of the last call tells the caller the call failed
FailureReported ==
    \/ res.raised
    \/ arg.op = "probe" /\ res.value.method_used \in {"fallback", "error"}
    \/ arg.op = "extract" /\ ~res.value.success
    \/ arg.op = "validate" /\ ~res.value.valid

\* C18: a call of probe, extract or validate does not fetch again with a
\* strategy whose fetch failed earlier in the call, and when its last fetch
\* failed its result reports a failure
C18_SingleShot ==
    arg.op \in {"probe", "extract", "validate"}
    => /\ \A i, j \in 1..Len(trace.fetched) :
            (i < j /\ trace.fetched[i].failed)
                => trace.fetched[i].strategy # trace.fetched[j].strategy
       /\ (trace.fetched # <<>> /\ trace.fetched[Len(trace.fetched)].failed)
            => FailureReported

\* the fetches of the last call read the page
PageRead ==
    /\ trace.fetched # <<>>
    /\ \A i \in 1..Len(trace.fetched) : ~trace.fetched[i].failed

\* the forms of the page of the site
NumForms == _safe_count_forms(trace.site.page)

\* C20: extract returns the fields of a form only for an index from 0 to
\* the number of forms less one; for a page without forms it returns the
\* no-forms failure, and for any other index, too large or negative, the
\* index failure with no fields
C20_IndexInRange ==
    (arg.op = "extract" /\ ~res.raised)
    => /\ res.value.success => (0 <= arg.form_index /\ arg.form_index < NumForms)
       /\ (PageRead /\ NumForms = 0)
            => (~res.value.success /\ res.value.error = <<"N","o"," ","f","o","r","m","s"," ","f","o","u","n","d"," ","o","n"," ","p","a","g","e">>)
       /\ (PageRead /\ NumForms > 0
                /\ (arg.form_index < 0 \/ arg.form_index >= NumForms))
            => /\ ~res.value.success
               /\ res.value.fields = <<>>
               /\ res.value.error # None
               /\ res.value.error # <<"N","o"," ","f","o","r","m","s"," ","f","o","u","n","d"," ","o","n"," ","p","a","g","e">>

\* the probe made a get() with the browser
FetchedWithBrowser ==
    \E i \in 1..Len(trace.fetched) : trace.fetched[i].strategy = "browser_automation"

\* C27: the probe returns the report of the session, without a get() of the
\* browser, only when the session read the page and found no barrier and at
\* least one form
C27_EscalatesUnlessForm ==
    (arg.op = "probe" /\ ~res.raised /\ res.value.method_used = "http_session")
    => /\ ~FetchedWithBrowser
       /\ res.value.barriers = <<>>
       /\ res.value.forms_found >= 1

(***************************************************************************)
(* validate_submission_enhanced, then submit_form_enhanced, on one site    *)
(***************************************************************************)
\* a form whose second, optional field is an e-mail address too
OptionalEmailPage ==
    [FormPage EXCEPT !.forms[1][2].type = <<"e","m","a","i","l">>]

PreflightSites ==
    { [site EXCEPT !.page = page] :
        site \in Sites \cup {[WorkingSite EXCEPT !.session = "raises"],
                            [WorkingSite EXCEPT !.tactic = "none_found"],
                            [WorkingSite EXCEPT !.form_eles = "raises"]},
        page \in {FormPage, OptionalEmailPage} }

PreflightDatas ==
    { Dict(<< [k |-> <<"e","m","a","i","l">>, v |-> <<"a","@","b",".","c">>] >>),
      Dict(<< [k |-> <<"e","m","a","i","l">>, v |-> <<"n","o","b","o","d","y">>] >>),
      Dict(<< [k |-> <<"u","s","e","r","_","e","m","a","i","l">>, v |-> <<"a","@","b",".","c">>] >>),
      Dict(<< [k |-> <<"e","m","a","i","l">>, v |-> <<"a","@","b",".","c">>], [k |-> <<"u","s","e","r","_","e","m","a","i","l">>, v |-> <<"n","o","b","o","d","y">>] >>) }

\* last is the last call of validate_submission_enhanced and what it gave
InitPreflight ==
    /\ arg = NoCall
    /\ res = NoCall
    /\ submitter = [class |-> "BulletproofFormSubmitter", submission_history |-> <<>>,
                    scraper |-> NewScraper]
    /\ \E site \in PreflightSites :
        trace = [now |-> 1, began |-> 1, started |-> 0, used |-> 0, slept |-> <<>>,
                 finished |-> <<>>, site |-> site,
                 last |-> [arg |-> NoCall, res |-> NoCall]]
    /\ frame = Idle

\* BulletproofFormSubmitter.validate_submission_enhanced
PreflightValidate ==
    /\ frame.pc = "idle"
    /\ \E url \in SubmitUrls, field_data \in PreflightDatas, order \in NameOrders :
       \E call \in {validate_submission_enhanced(submitter.scraper, trace.site, url,
                                                 field_data, 0, order)} :
        /\ arg' = [op |-> "validate", url |-> url, field_data |-> field_data,
                   form_index |-> 0]
        /\ res' = Outcome(call)
        /\ submitter' = [submitter EXCEPT !.scraper = call.scraper]
        /\ trace' = [trace EXCEPT !.last = [arg |-> arg', res |-> res']]
        /\ UNCHANGED frame

NextPreflight ==
    \/ PreflightValidate
    \/ SubmitCall
    \/ BeginAttempt
    \/ FinishAttempt
    \/ Wake

SpecPreflight == InitPreflight /\ [][NextPreflight]_vars

\* the value the data supplies for an element: that of the first key equal
\* to the element's name, letter case aside
SuppliedValue(element, items) ==
    LET hits == {n \in 1..Len(items) : lower(items[n].k) = lower(element.name)} IN
    IF hits = {} THEN <<>>
    ELSE items[CHOOSE n \in hits : \A m \in hits : n <= m].v

\* the value meets the constraints of the element's subtype
Satisfies(element, value) ==
    _safe_validate_field_value(
        [type |-> OrElse(element.type, <<"t","e","x","t">>), identifier |-> element.name], value) = <<>>

\* the elements of the form the calls are about
FormElements0 == {trace.site.page.forms[1][n] : n \in 1..Len(trace.site.page.forms[1])}

RequiredSupplied(items) ==
    \A element \in FormElements0 :
        element.required =>
            /\ strip(SuppliedValue(element, items)) # <<>>
            /\ Satisfies(element, SuppliedValue(element, items))

AllSuppliedSatisfy(items) ==
    \A element \in FormElements0 :
        SuppliedValue(element, items) # <<>> => Satisfies(element, SuppliedValue(element, items))

\* validate_submission_enhanced returned a verdict on the fields of the form
ValidatedForm ==
    arg.op = "validate" /\ ~res.raised /\ "total_fields" \in DOMAIN res.value

\* a submit_form_enhanced with the arguments of the validate_submission_enhanced
\* before it, which was valid, and a retry ceiling of at least 1 has returned
SubmittedAfterValid ==
    /\ arg.op = "submit"
    /\ arg.max_retries >= 1
    /\ frame.pc = "idle"
    /\ trace.last.arg.op = "validate"
    /\ trace.last.arg.url = arg.url
    /\ trace.last.arg.field_data = Dict(arg.field_data)
    /\ ~trace.last.res.raised
    /\ trace.last.res.value.valid

\* the call went on to an attempt
Attempted ==
    /\ res.message # "invalid_input"
    /\ res.attempts >= 1
    /\ trace.started >= 1

FillingBegan ==
    /\ submitter.scraper.browser_page
    /\ trace.site.navigation # "fails"
    /\ trace.site.eles = "ok"
    /\ arg.form_index < Len(trace.site.page.forms)

\* what _safe_submit_with_browser returned for the last attempt
LastAttempt ==
    _safe_submit_with_browser(submitter.scraper, trace.site, arg.url, arg.field_data,
                              arg.form_index).value

\* the result carries the counts of fields filled, skipped and in error
HasFillStatistics(result) ==
    /\ "field_filling" \in DOMAIN result
    /\ {"fields_filled", "skipped_fields", "errors"} \subseteq DOMAIN result.field_filling

\* C15: when the attempts of a submit fail after filling has begun, the
\* failure returned for the attempt and the result submit returns both carry
\* the fill statistics
C15_FillStatisticsKept ==
    (arg.op = "submit" /\ frame.pc = "idle" /\ res.method_used = "failed_all_attempts"
        /\ FillingBegan)
    => /\ HasFillStatistics(LastAttempt)
       /\ HasFillStatistics(res)
(***************************************************************************)
(* Two calls of submit_form_enhanced on one submitter, as two tasks of the *)
(* event loop: a task runs from one await that suspends it (asyncio.sleep) *)
(* to the next, and the tasks share the browser of the submitter's scraper *)
(* and the attempt history                                                 *)
(***************************************************************************)
Pipelines == {1, 2}

MaxConcurrentAttempts == 3    \* attempts the concurrent calls may use together

\* the attempts the calls made so far may use
Reserved(calls) ==
    LET made == {p \in DOMAIN calls : calls[p] # NoCall}
        Sum[S \in SUBSET made] ==
            IF S = {} THEN 0
            ELSE LET p == CHOOSE q \in S : TRUE IN calls[p].max_retries + Sum[S \ {p}]
    IN  Sum[made]

ConcurrentUrls == { <<"/","f","o","r","m">>, <<"/","o","t","h","e","r">> }
ConcurrentData == << [k |-> <<"e","m","a","i","l">>, v |-> <<"a","@","b",".","c">>] >>

\* the page the browser shows after get(url)
LoadedPage(url) == [FormPage EXCEPT !.url = url]

\* the page the site answers a submission with: a confirmation for the form
\* of /form, an error for any other
AnsweredPage(url) ==
    IF url = <<"/","f","o","r","m">> THEN [content |-> <<"T","h","a","n","k"," ","y","o","u">>, url |-> <<"/","d","o","n","e">>]
    ELSE [content |-> <<"e","r","r","o","r",":"," ","t","r","y"," ","a","g","a","i","n">>, url |-> url]

\* an earlier call with max_retries = 1 whose submission the site refused:
\* its validation built the session, its attempt built the browser
EarlierValidation ==
    validate_submission_enhanced(NewScraper, WorkingSite, <<"/","o","t","h","e","r">>, Dict(ConcurrentData), 0,
                                 << <<"e","m","a","i","l">>, <<"u","s","e","r","_","e","m","a","i","l">> >>)

EarlierAttempt ==
    _safe_submit_with_browser(EarlierValidation.scraper,
                              [WorkingSite EXCEPT !.after = AnsweredPage(<<"/","o","t","h","e","r">>)],
                              <<"/","o","t","h","e","r">>, ConcurrentData, 0)

\* the history after k such calls, the n-th at time n
ConcurrentHistoryAfter(k) ==
    [n \in 1..k |->
        _safe_record_attempt(<<>>, n, <<"/","o","t","h","e","r">>, ConcurrentData, EarlierAttempt.value, 1)[1]]

\* appended is every record ever appended with the pipeline that appended
\* it; browser.by is the pipeline whose get() loaded the page now shown,
\* browser.load counts the pages loaded, browser.form tells a form is shown;
\* read is what the last get_submission_history saw
InitConcurrent ==
    /\ arg = [p \in Pipelines |-> NoCall]
    /\ res = [p \in Pipelines |-> NoCall]
    /\ frame = [p \in Pipelines |-> Idle]
    /\ \E k \in {1, _max_history - 1} :
        /\ submitter = [class |-> "BulletproofFormSubmitter",
                        submission_history |-> ConcurrentHistoryAfter(k),
                        scraper |-> EarlierAttempt.scraper]
        /\ trace = [now |-> k + 1,
                    appended |-> [n \in 1..k |-> [timestamp |-> n, attempt |-> 1,
                                                  success |-> FALSE, pipeline |-> 0]],
                    browser |-> [page |-> AnsweredPage(<<"/","o","t","h","e","r">>), by |-> 0, load |-> 0,
                                 form |-> FALSE],
                    classified |-> [p \in Pipelines |-> 0],
                    read |-> NoCall]

\* submit_form_enhanced up to the retry loop; the validation reads the page
\* with the session and does not suspend
ConcurrentCall(p) ==
    /\ arg[p] = NoCall
    /\ \E url \in ConcurrentUrls,
          max_retries \in 1..(MaxConcurrentAttempts - Reserved(arg)) :
       \E validated \in {validate_submission_enhanced(submitter.scraper, WorkingSite, url,
                                                      Dict(ConcurrentData), 0,
                                                      << <<"e","m","a","i","l">>, <<"u","s","e","r","_","e","m","a","i","l">> >>)} :
        /\ arg' = [arg EXCEPT ![p] = [op |-> "submit", url |-> url,
                                      field_data |-> ConcurrentData, form_index |-> 0,
                                      max_retries |-> max_retries]]
        /\ submitter' = [submitter EXCEPT !.scraper = validated.scraper]
        /\ frame' = [frame EXCEPT ![p] = [pc |-> "loop", attempt |-> 0, began |-> trace.now,
                                          result |-> ResultWithValidation(validated),
                                          load |-> 0, fill_result |-> NoCall,
                                          submit_result |-> NoCall]]
        /\ UNCHANGED <<res, trace>>

\* the start of a round and of _safe_submit_with_browser: browser_page.get(url),
\* then asyncio.sleep(3)
Navigate(p) ==
    /\ frame[p].pc = "loop"
    /\ frame' = [frame EXCEPT ![p].pc = "find", ![p].result.attempts = frame[p].attempt + 1]
    /\ trace' = [trace EXCEPT !.browser = [page |-> LoadedPage(arg[p].url), by |-> p,
                                           load |-> trace.browser.load + 1, form |-> TRUE]]
    /\ UNCHANGED <<arg, res, submitter>>

\* the end of a round of the loop for the result of its attempt: the attempt
\* is recorded, and the call returns, or sleeps before the next round
ConcurrentAttemptReturned(p, submission_result) ==
    \E success \in {Get(submission_result, "success", FALSE)},
       last_error \in {Get(submission_result, "error", <<"U","n","k","n","o","w","n"," ","s","u","b","m","i","s","s","i","o","n"," ","e","r","r","o","r">>)} :
        /\ submitter' =
            [submitter EXCEPT
                !.submission_history =
                    _safe_record_attempt(@, trace.now, arg[p].url, arg[p].field_data,
                                         submission_result, frame[p].attempt + 1)]
        /\ IF success
           THEN /\ res' = [res EXCEPT ![p] =
                            Update(Update(frame[p].result, submission_result),
                                   [method_used |-> "browser_automation",
                                    submission_time |-> trace.now + 1 - frame[p].began])]
                /\ frame' = [frame EXCEPT ![p] = Idle]
           ELSE IF frame[p].attempt < arg[p].max_retries - 1
           THEN /\ res' = res
                /\ frame' = [frame EXCEPT ![p].pc = "sleeping", ![p].result.error = last_error]
           ELSE /\ res' = [res EXCEPT ![p] =
                            Update(frame[p].result,
                                   [success |-> FALSE, message |-> "failed_after_attempts",
                                    method_used |-> "failed_all_attempts",
                                    error |-> last_error,
                                    submission_time |-> trace.now + 1 - frame[p].began])]
                /\ frame' = [frame EXCEPT ![p] = Idle]
        /\ UNCHANGED arg

\* what the step notes for the observer
Noted(p, success, classified) ==
    [trace EXCEPT !.now = @ + 1,
                  !.appended = Append(@, [timestamp |-> trace.now,
                                          attempt |-> frame[p].attempt + 1,
                                          success |-> success, pipeline |-> p]),
                  !.classified[p] = classified]

\* after the sleep: browser_page.eles('tag:form') on the page the browser
\* shows now, then _safe_fill_form_fields up to its first sleep
FindAndFill(p) ==
    /\ frame[p].pc = "find"
    /\ IF ~trace.browser.form
       THEN \E failure \in {[success |-> FALSE, error |-> <<"N","o"," ","f","o","r","m","s"," ","f","o","u","n","d"," ","o","n"," ","t","h","e"," ","p","a","g","e">>]} :
            /\ ConcurrentAttemptReturned(p, failure)
            /\ trace' = Noted(p, FALSE, trace.classified[p])
       ELSE /\ frame' = [frame EXCEPT
                            ![p].pc = "submit",
                            ![p].load = trace.browser.load,
                            ![p].fill_result =
                                _safe_fill_form_fields(trace.browser.page.forms[1], FALSE,
                                                       arg[p].field_data)]
            /\ UNCHANGED <<arg, res, submitter, trace>>

\* the rest of the fill, then _safe_submit_form(form) up to its sleep: the
\* form the task holds can be submitted while the page it was found on is
\* still shown
SubmitStep(p) ==
    /\ frame[p].pc = "submit"
    /\ IF trace.browser.form /\ trace.browser.load = frame[p].load
       THEN /\ frame' = [frame EXCEPT ![p].pc = "classify",
                            ![p].submit_result = _safe_submit_form(WorkingSite)]
            /\ trace' = [trace EXCEPT !.browser.page = AnsweredPage(trace.browser.page.url),
                                      !.browser.form = FALSE]
       ELSE /\ frame' = [frame EXCEPT ![p].pc = "classify",
                            ![p].submit_result =
                                _safe_submit_form([WorkingSite EXCEPT !.tactic = "none_found"])]
            /\ UNCHANGED trace
    /\ UNCHANGED <<arg, res, submitter>>

\* after the sleeps: _safe_process_response reads the page the browser shows
\* now, the attempt returns and the round ends
Classify(p) ==
    /\ frame[p].pc = "classify"
    /\ \E final_result \in
            {FinalResult(frame[p].fill_result, frame[p].submit_result,
                         _safe_process_response(trace.browser.page.content,
                                                trace.browser.page.url, arg[p].url),
                         arg[p].url)} :
        /\ ConcurrentAttemptReturned(p, final_result)
        /\ trace' = Noted(p, final_result.success, trace.browser.by)

\* asyncio.sleep(wait_time) is over
ConcurrentWake(p) ==
    /\ frame[p].pc = "sleeping"
    /\ frame' = [frame EXCEPT ![p].pc = "loop", ![p].attempt = @ + 1]
    /\ UNCHANGED <<arg, res, submitter, trace>>

\* server.get_submission_history: the list is read in one step of the loop
ReadHistory ==
    /\ trace' = [trace EXCEPT !.read = [history |-> submitter.submission_history,
                                        appended |-> Len(trace.appended)]]
    /\ UNCHANGED <<arg, res, submitter, frame>>

NextConcurrent ==
    \/ \E p \in Pipelines : ConcurrentCall(p)
    \/ \E p \in Pipelines : Navigate(p)
    \/ \E p \in Pipelines : FindAndFill(p)
    \/ \E p \in Pipelines : SubmitStep(p)
    \/ \E p \in Pipelines : Classify(p)
    \/ \E p \in Pipelines : ConcurrentWake(p)
    \/ ReadHistory

SpecConcurrent == InitConcurrent /\ [][NextConcurrent]_vars

\* the pipeline is between its navigation and its classification
InWindow(p) == frame[p].pc \in {"find", "submit", "classify"}

\* C16: while a pipeline is between its navigation and its classification no
\* other pipeline loads a page in the shared browser, and the page a pipeline
\* classifies is the one it navigated to itself
C16_Serialized ==
    \A p \in Pipelines :
        /\ InWindow(p) => trace.browser.by = p
        /\ trace.classified[p] \in {0, p}

\* the attempts of pipeline p that have ended
Ended(p) ==
    IF arg[p] = NoCall THEN 0
    ELSE IF frame[p].pc = "idle" THEN res[p].attempts
    ELSE IF frame[p].pc = "sleeping" THEN frame[p].attempt + 1
    ELSE frame[p].attempt

\* what the history must show of the records appended so far
Shown(appended) ==
    Last([i \in 1..Len(appended) |->
            [timestamp |-> appended[i].timestamp, attempt |-> appended[i].attempt,
             success |-> appended[i].success]],
         _max_history)

SeenOf(records) == [i \in 1..Len(records) |-> Seen(records[i])]

\* C17: with pipelines interleaving at their suspension points, every
\* attempt that ended was appended exactly once, the history is the last 50
\* of the records appended, in the order they were appended, it never holds
\* more than 50, and a history read saw the list as it was after whole appends
C17_AppendsSerialized ==
    /\ \A p \in Pipelines : \A n \in 1..MaxConcurrentAttempts :
            Cardinality({i \in 1..Len(trace.appended) :
                            trace.appended[i].pipeline = p /\ trace.appended[i].attempt = n})
                = (IF n <= Ended(p) THEN 1 ELSE 0)
    /\ Len(history) <= _max_history
    /\ SeenOf(history) = Shown(trace.appended)
    /\ trace.read # NoCall
        => SeenOf(trace.read.history) = Shown(SubSeq(trace.appended, 1, trace.read.appended))

\* C17: one pipeline appended after the other, the oldest record was
\* evicted, the history was read between two appends, and a pipeline has an
\* attempt in progress
C17_Witness ==
    /\ Len(trace.appended) > _max_history
    /\ \E i \in 1..(Len(trace.appended) - 1) :
            /\ trace.appended[i].pipeline = 1
            /\ trace.appended[i + 1].pipeline = 2
    /\ trace.read # NoCall
    /\ trace.read.appended = Len(trace.appended) - 1
    /\ \E p \in Pipelines : InWindow(p)
(***************************************************************************)
(* UltraFormSubmitter.submit_form_ultra: the retry loop of the HTTP        *)
(* submitter, which keeps no history                                       *)
(***************************************************************************)
UltraUrls == { <<"/","f","o","r","m">>, <<"/","o","t","h","e","r">> }
UltraFormIndexes == {-2, -1, 0, 1}
UltraData == << [k |-> <<"e","m","a","i","l">>, v |-> <<"a","@","b",".","c">>] >>

\* what the site answers the POST of the form with: its status and the
\* indicators _detect_success_indicators and _detect_error_indicators find
UltraResponses ==
    { [status |-> 200, success_indicators |-> << <<"t","h","a","n","k"," ","y","o","u">> >>, error_indicators |-> <<>>],
      [status |-> 200, success_indicators |-> <<>>, error_indicators |-> <<>>],
      [status |-> 200, success_indicators |-> <<>>, error_indicators |-> << <<"i","n","v","a","l","i","d">> >>],
      [status |-> 500, success_indicators |-> <<>>, error_indicators |-> <<>>] }

\* what the site does during one attempt: the session or the GET raises, or
\* the GET is answered with a status and a page of some forms, and the POST
\* with a response
UltraAnswers ==
    { [raises |-> TRUE, status |-> 0, forms |-> 0, response |-> NoCall] }
    \cup { [raises |-> FALSE, status |-> 404, forms |-> 0, response |-> NoCall] }
    \cup { [raises |-> FALSE, status |-> 200, forms |-> 0, response |-> NoCall] }
    \cup { [raises |-> FALSE, status |-> 200, forms |-> 1, response |-> response] :
                response \in UltraResponses }

Ultra_process_submission_response(response) ==
    LET submission_success ==
            /\ response.status \in {200, 201, 302, 303}
            /\ Len(response.error_indicators) = 0
            /\ Len(response.success_indicators) > 0
        result == [success |-> submission_success, status_code |-> response.status]
    IN  IF ~submission_success
        THEN LET error_message ==
                    IF response.error_indicators # <<>> THEN <<"E","r","r","o","r","s"," ","d","e","t","e","c","t","e","d">>
                    ELSE IF response.status >= 400 THEN <<"H","T","T","P"," ","e","r","r","o","r">>
                    ELSE IF response.success_indicators = <<>>
                    THEN <<"N","o"," ","s","u","c","c","e","s","s"," ","c","o","n","f","i","r","m","a","t","i","o","n"," ","d","e","t","e","c","t","e","d">>
                    ELSE <<"F","o","r","m"," ","s","u","b","m","i","s","s","i","o","n"," ","m","a","y"," ","h","a","v","e"," ","f","a","i","l","e","d">>
             IN  Update(result, [error |-> error_message, message |-> error_message])
        ELSE Update(result, [message |-> <<"F","o","r","m"," ","s","u","b","m","i","t","t","e","d"," ","s","u","c","c","e","s","s","f","u","l","l","y">>])

\* forms[form_index] of a list of n forms raises IndexError below -n, and the
\* handler of the attempt turns every exception into a failure result
_attempt_form_submission(answer, form_index) ==
    IF answer.raises
    THEN [success |-> FALSE, error |-> <<"S","u","b","m","i","s","s","i","o","n"," ","f","a","i","l","e","d">>]
    ELSE IF answer.status \notin {200, 201}
    THEN [success |-> FALSE, error |-> <<"C","a","n","n","o","t"," ","a","c","c","e","s","s"," ","f","o","r","m"," ","p","a","g","e">>, status_code |-> answer.status]
    ELSE IF answer.forms = 0
    THEN [success |-> FALSE, error |-> <<"N","o"," ","f","o","r","m","s"," ","f","o","u","n","d"," ","o","n"," ","p","a","g","e">>]
    ELSE IF form_index >= answer.forms
    THEN [success |-> FALSE, error |-> <<"F","o","r","m"," ","i","n","d","e","x"," ","n","o","t"," ","f","o","u","n","d">>]
    ELSE IF form_index < 0 - answer.forms
    THEN [success |-> FALSE, error |-> <<"S","u","b","m","i","s","s","i","o","n"," ","f","a","i","l","e","d">>]
    ELSE Ultra_process_submission_response(answer.response)

UltraIdle == [pc |-> "idle", attempt |-> 0, max_retries |-> 0, retry_delay |-> 0,
              result |-> NoCall]

\* trace notes what an observer of the call sees: the attempts started, the
\* outcome of each, the sleeps, and the ceiling of the loop
InitUltra ==
    /\ arg = NoCall
    /\ res = NoCall
    /\ submitter = [class |-> "UltraFormSubmitter"]
    /\ frame = UltraIdle
    /\ trace = [started |-> 0, finished |-> <<>>, slept |-> <<>>, max_retries |-> 0]

\* submit_form_ultra up to its loop
UltraCall ==
    /\ frame.pc = "idle"
    /\ \E url \in UltraUrls, form_index \in UltraFormIndexes :
        arg' = [op |-> "submit", url |-> url, field_data |-> UltraData,
                form_index |-> form_index]
    /\ res' = NoCall
    /\ frame' = [pc |-> "loop", attempt |-> 0, max_retries |-> 3, retry_delay |-> 1,
                 result |-> NoCall]
    /\ trace' = [started |-> 0, finished |-> <<>>, slept |-> <<>>, max_retries |-> 3]
    /\ UNCHANGED submitter

\* one round of the loop: the attempt is made, and its result is returned as
\* it is when it succeeded or was the last
UltraAttempt ==
    /\ frame.pc = "loop"
    /\ \E answer \in UltraAnswers :
       \E result \in {_attempt_form_submission(answer, arg.form_index)} :
        /\ trace' = [trace EXCEPT !.started = @ + 1,
                                  !.finished = Append(@, result.success)]
        /\ IF result.success
           THEN /\ res' = result
                /\ frame' = UltraIdle
           ELSE IF frame.attempt < frame.max_retries - 1
           THEN /\ res' = res
                /\ frame' = [frame EXCEPT !.pc = "sleeping", !.result = result]
           ELSE /\ res' = result
                /\ frame' = UltraIdle
    /\ UNCHANGED <<arg, submitter>>

\* asyncio.sleep(retry_delay) is over, the delay doubles
UltraWake ==
    /\ frame.pc = "sleeping"
    /\ frame' = [frame EXCEPT !.pc = "loop", !.attempt = @ + 1, !.retry_delay = @ * 2]
    /\ trace' = [trace EXCEPT !.slept = Append(@, frame.retry_delay)]
    /\ UNCHANGED <<arg, res, submitter>>

NextUltra ==
    \/ UltraCall
    \/ UltraAttempt
    \/ UltraWake

SpecUltra == InitUltra /\ [][NextUltra]_vars

UltraReturned == arg.op = "submit" /\ frame.pc = "idle"

\* C22: submit_form_ultra makes at most as many attempts as its ceiling,
\* none after an attempt that succeeded, and the result it returns has an
\* attempts value equal to the number of attempts it made
C22_AttemptsCounted ==
    /\ trace.started <= trace.max_retries
    /\ \A i \in 1..Len(trace.finished) : trace.finished[i] => i = Len(trace.finished)
    /\ UltraReturned
        => /\ "attempts" \in DOMAIN res
           /\ res.attempts = trace.started
(***************************************************************************)
(* The submit step of one attempt: _safe_submit_form of the Bulletproof    *)
(* submitter and _handle_form_submission of the Enhanced one, on a form    *)
(* whose controls may be missing or may raise                              *)
(***************************************************************************)
TacticOrder == << "click", "enter", "native" >>

\* the fillable fields of the form, by type, in document order
TacticInputs == { <<>>, << "text" >>, << "email" >>, << "text", "email" >>,
                  << "email", "text" >> }

\* a form: its number of buttons, its fillable fields, and whether
\* button.click(), last_input.input('\n') and the native submit raise
TacticForms ==
    [buttons : {0, 1}, inputs : TacticInputs,
     click : {"ok", "raises"}, enter : {"ok", "raises"}, native : {"ok", "raises"}]

\* the positions of form.eles(selector) for a selector of the given types
ElesOfTypes(inputs, types) == {i \in 1..Len(inputs) : inputs[i] \in types}

Highest(S) == CHOOSE i \in S : \A j \in S : j <= i

\* the types the focusable selectors of _safe_submit_form match, in the
\* order of the list; the last one matches every input that is not hidden,
\* a submit or a button
focusable_selectors == << {"text"}, {"email"}, {"textarea"}, {"text", "email", "textarea"} >>

\* Strategy 2 of _safe_submit_form: the first selector with matches whose
\* last match takes the Enter key; a selector that raises is passed over
EnterKeyStrategy(form) ==
    LET matching == {s \in 1..Len(focusable_selectors) :
                        ElesOfTypes(form.inputs, focusable_selectors[s]) # {}}
    IN  IF matching = {}
        THEN [success |-> FALSE, entered |-> 0]
        ELSE LET first == CHOOSE s \in matching : \A t \in matching : s <= t
             IN  [success |-> form.enter = "ok",
                  entered |-> Highest(ElesOfTypes(form.inputs, focusable_selectors[first]))]

\* the result and what an observer of the form saw: the tactics tried in
\* order and the field that got the Enter key (0 for none)
_safe_submit_form_on(form) ==
    IF form.buttons > 0 /\ form.click = "ok"
    THEN [result |-> [method |-> "submit_button", success |-> TRUE],
          tried |-> << "click" >>, entered |-> 0]
    ELSE LET strategy2 == EnterKeyStrategy(form)
         IN  IF strategy2.success
             THEN [result |-> [method |-> "enter_key", success |-> TRUE],
                   tried |-> << "click", "enter" >>, entered |-> strategy2.entered]
             ELSE IF form.native = "ok"
             THEN [result |-> [method |-> "javascript_submit", success |-> TRUE],
                   tried |-> TacticOrder, entered |-> strategy2.entered]
             ELSE [result |-> [method |-> "none_found", success |-> FALSE,
                               error |-> <<"N","o"," ","w","o","r","k","i","n","g"," ","s","u","b","m","i","s","s","i","o","n"," ","m","e","t","h","o","d"," ","f","o","u","n","d">>],
                   tried |-> TacticOrder, entered |-> strategy2.entered]

\* the handler of _handle_form_submission: Enter in the last of the text,
\* email and textarea fields, else the failure
HandlerOfSubmission(form, tried) ==
    LET inputs == ElesOfTypes(form.inputs, {"text", "email", "textarea"})
    IN  IF inputs # {} /\ form.enter = "ok"
        THEN [result |-> [method |-> "enter_key", success |-> TRUE],
              tried |-> Append(tried, "enter"), entered |-> Highest(inputs)]
        ELSE [result |-> [method |-> "failed", success |-> FALSE, error |-> <<"r","a","i","s","e","d">>],
              tried |-> IF inputs # {} THEN Append(tried, "enter") ELSE tried,
              entered |-> IF inputs # {} THEN Highest(inputs) ELSE 0]

_handle_form_submission(form) ==
    IF form.buttons > 0
    THEN IF form.click = "ok"
         THEN [result |-> [method |-> "submit_button", success |-> TRUE],
               tried |-> << "click" >>, entered |-> 0]
         ELSE HandlerOfSubmission(form, << "click" >>)
    ELSE IF form.native = "ok"
         THEN [result |-> [method |-> "form_submit", success |-> TRUE],
               tried |-> << "click", "native" >>, entered |-> 0]
         ELSE HandlerOfSubmission(form, << "click", "native" >>)

InitTactics ==
    /\ arg = NoCall
    /\ res = NoCall
    /\ \E class \in Classes : submitter = [class |-> class]
    /\ frame = Idle
    /\ trace = [tried |-> <<>>, entered |-> 0]

SubmitTacticsDone(form, done) ==
    /\ arg' = [op |-> "submit_form", form |-> form]
    /\ res' = done.result
    /\ trace' = [tried |-> done.tried, entered |-> done.entered]
    /\ UNCHANGED <<submitter, frame>>

SafeSubmitForm ==
    /\ Bulletproof
    /\ \E form \in TacticForms : SubmitTacticsDone(form, _safe_submit_form_on(form))

HandleFormSubmission ==
    /\ Enhanced
    /\ \E form \in TacticForms : SubmitTacticsDone(form, _handle_form_submission(form))

NextTactics ==
    \/ SafeSubmitForm
    \/ HandleFormSubmission

SpecTactics == InitTactics /\ [][NextTactics]_vars

\* the tactics were tried in the fixed order, none passed over
TriedInOrder == trace.tried = SubSeq(TacticOrder, 1, Len(trace.tried))

\* the Enter key, when a field took it, went to the last fillable field
EnterInLastField == trace.entered \in {0, Len(arg.form.inputs)}

\* C23: the submit step tries click, then Enter in the last fillable field,
\* then the native submit, in that order; the tactic that succeeds is the
\* last one tried, and the step reports a failure only when all three were
\* tried and failed
C23_TacticsInOrder ==
    arg.op = "submit_form"
    => /\ TriedInOrder
       /\ EnterInLastField
       /\ ~res.success => trace.tried = TacticOrder
(***************************************************************************)
(* One browser attempt, step by step: the navigation, the form at the      *)
(* requested index, and what follows, in the three modules that have one   *)
(***************************************************************************)
AttemptModules ==
    {"bulletproof_submitter", "proper_drissionpage_submitter", "enhanced_form_submitter"}

\* what one browser_page.get(url) does: the page loads, get() raises, or the
\* browser is left without a URL
GetOutcomes == {"loads", "raises", "no_url"}

AttemptFormIndexes == {-2, -1, 0, 1}

\* the page of the site: with no form, one form, or the same form twice
AttemptPages ==
    { [FormPage EXCEPT !.forms = <<>>], FormPage, [FormPage EXCEPT !.forms = @ \o @] }

\* the navigation loop of bulletproof_submitter: a get() that raises or
\* leaves no URL is followed by one more, and the second failure ends the
\* attempt
NavigateWithRetry(first, second) ==
    IF first = "loads" THEN [gets |-> 1, failed |-> FALSE, shown |-> TRUE]
    ELSE IF second = "loads" THEN [gets |-> 2, failed |-> FALSE, shown |-> TRUE]
    ELSE [gets |-> 2, failed |-> TRUE, shown |-> FALSE]

\* the navigation of proper_drissionpage_submitter and of
\* enhanced_form_submitter: one get(), which fails only by raising
NavigateOnce(first) ==
    [gets |-> 1, failed |-> first = "raises", shown |-> first = "loads"]

NavigationOf(module, first, second) ==
    IF module = "bulletproof_submitter" THEN NavigateWithRetry(first, second)
    ELSE NavigateOnce(first)

\* the position, from 1, of forms[form_index] when the attempt takes it: 0
\* when the index test ends the attempt or the indexing raises
FormTaken(forms, form_index) ==
    IF form_index >= Len(forms) \/ ~InRange(forms, form_index) THEN 0
    ELSE IF form_index < 0 THEN Len(forms) + form_index + 1
    ELSE form_index + 1

\* the attempt after the browser is there: its result, the get() calls it
\* made, whether it looked for the forms, and the form it filled and sent
BrowserAttempt(module, page, first, second, url, field_data, form_index) ==
    LET navigation == NavigationOf(module, first, second)
        site == [WorkingSite EXCEPT
                    !.page = IF navigation.shown THEN page ELSE [page EXCEPT !.forms = <<>>]]
    IN  IF navigation.failed
        THEN [result |-> [success |-> FALSE, error |-> <<"C","o","u","l","d"," ","n","o","t"," ","n","a","v","i","g","a","t","e"," ","t","o"," ","p","a","g","e">>],
              gets |-> navigation.gets, located |-> FALSE, form |-> 0]
        ELSE [result |-> IF module = "enhanced_form_submitter"
                         THEN SubmitWith("browser_automation", site, url, field_data,
                                         form_index).value
                         ELSE InteractWithForm(site, url, field_data, form_index),
              gets |-> navigation.gets, located |-> TRUE,
              form |-> FormTaken(site.page.forms, form_index)]

\* the attempt is entered with its arguments, on a site that shows the page
\* and answers the get() calls as drawn
InitAttempt ==
    /\ \E module \in AttemptModules, page \in AttemptPages, first \in GetOutcomes,
          second \in GetOutcomes, form_index \in AttemptFormIndexes :
        arg = [op |-> "attempt", module |-> module, page |-> page, forms |-> Len(page.forms),
               first |-> first, second |-> second, form_index |-> form_index]
    /\ res = NoCall
    /\ submitter = [class |-> "none"]
    /\ frame = [pc |-> "attempt"]
    /\ trace = [gets |-> 0, located |-> FALSE, form |-> 0]

\* the attempt runs to its return
AttemptWithBrowser ==
    /\ frame.pc = "attempt"
    /\ \E attempt \in {BrowserAttempt(arg.module, arg.page, arg.first, arg.second, <<"/","f","o","r","m">>,
                                      ConcurrentData, arg.form_index)} :
        /\ res' = attempt.result
        /\ trace' = [gets |-> attempt.gets, located |-> attempt.located,
                     form |-> attempt.form]
    /\ frame' = Idle
    /\ UNCHANGED <<arg, submitter>>

NextAttempt == AttemptWithBrowser

SpecAttempt == InitAttempt /\ [][NextAttempt]_vars

\* the modules whose navigation is to be retried
RetryingModules == {"bulletproof_submitter", "proper_drissionpage_submitter"}

\* C24: an attempt makes at most two navigations; a first navigation that
\* fails is followed by exactly one more, and when that fails too, the
\* attempt ends in failure without having looked for, filled or sent a form
C24_NavigationRetriedOnce ==
    (frame.pc = "idle" /\ arg.module \in RetryingModules)
    => /\ trace.gets <= 2
       /\ arg.first # "loads" => trace.gets = 2
       /\ (arg.first # "loads" /\ arg.second # "loads")
            => /\ ~res.success
               /\ ~trace.located
               /\ trace.form = 0

\* C25: when the page has no form at the requested index, the attempt fails
\* and no form, at that index or another, is filled or sent
C25_MissingIndexEndsAttempt ==
    (frame.pc = "idle" /\ arg.module # "proper_drissionpage_submitter"
        /\ trace.located /\ arg.form_index \notin 0..(arg.forms - 1))
    => /\ ~res.success
       /\ trace.form = 0
(***************************************************************************)
(* The matcher on one field: which of its four strategies binds the field  *)
(***************************************************************************)
MaxLayerKeys == 2

\* fields with an id and a name, a name only, and a placeholder only
LayerFields ==
    { [id |-> <<"P","h","o","n","e">>, name |-> <<"p","h","o","n","e","_","n","u","m","b","e","r">>, placeholder |-> <<>>],
      [id |-> <<>>, name |-> <<"e","m","a","i","l">>, placeholder |-> <<>>],
      [id |-> <<>>, name |-> <<"u","s","e","r","_","e","m","a","i","l">>, placeholder |-> <<>>],
      [id |-> <<>>, name |-> <<>>, placeholder |-> <<"Y","o","u","r"," ","E","m","a","i","l">>] }

\* the items callers supply; each key has its own value
LayerItems ==
    { [k |-> <<"P","h","o","n","e">>, v |-> <<"1">>],
      [k |-> <<"p","h","o","n","e","_","n","u","m","b","e","r">>, v |-> <<"2">>],
      [k |-> <<"m","o","b","i","l","e">>, v |-> <<"3">>],
      [k |-> <<"e","m","a","i","l">>, v |-> <<"4">>],
      [k |-> <<"E","m","a","i","l">>, v |-> <<"5">>],
      [k |-> <<"e","-","m","a","i","l">>, v |-> <<"6">>],
      [k |-> <<"u","s","e","r","_","e","m","a","i","l">>, v |-> <<"7">>],
      [k |-> <<"f","i","e","l","d","_","0">>, v |-> <<"8">>],
      [k |-> <<"m","a","i","l">>, v |-> <<"9">>] }

LayerDatas ==
    {d \in UNION {[1..n -> LayerItems] : n \in 1..MaxLayerKeys} :
        \A i, j \in DOMAIN d : i # j => d[i].k # d[j].k}

\* field_id or field_name or f'field_{i}' for the first element of a form
LayerIdentifier(field) ==
    IF field.id # <<>> THEN field.id
    ELSE IF field.name # <<>> THEN field.name
    ELSE <<"f","i","e","l","d","_","0">>

InitLayers ==
    /\ arg \in [op : {"match"}, field : LayerFields, field_data : LayerDatas]
    /\ res = NoCall
    /\ EngineAtRest

FindFieldValue ==
    /\ arg.op = "match"
    /\ res = NoCall
    /\ res' = [op |-> "match",
               value |-> _find_field_value_multiple_strategies(
                            arg.field_data, LayerIdentifier(arg.field), arg.field.name,
                            arg.field.id, arg.field.placeholder)]
    /\ UNCHANGED <<arg, engine>>

NextLayers == FindFieldValue

SpecLayers == InitLayers /\ [][NextLayers]_vars

\* the keys of the field in the order of the exact layer: id, name, identifier
LayerKeys == << arg.field.id, arg.field.name, LayerIdentifier(arg.field) >>

ItemsOf(d) == {d[i] : i \in 1..Len(d)}

\* the keys of the field a layer has a hit for
ExactHits == {n \in 1..3 : LayerKeys[n] # <<>>
                           /\ \E item \in ItemsOf(arg.field_data) : item.k = LayerKeys[n]}

InsensitiveHits ==
    {n \in 1..3 : LayerKeys[n] # <<>>
                  /\ \E item \in ItemsOf(arg.field_data) : lower(item.k) = lower(LayerKeys[n])}

\* the items a layer has a hit for
SubstringHits ==
    {item \in ItemsOf(arg.field_data) :
        \E key \in {LayerKeys[1], LayerKeys[2], LayerKeys[3], arg.field.placeholder} :
            /\ key # <<>>
            /\ In(lower(item.k), lower(key)) \/ In(lower(key), lower(item.k))}

ConceptHits ==
    {item \in ItemsOf(arg.field_data) :
        \E n \in 1..3 : LayerKeys[n] # <<>> /\ SameConcept(lower(LayerKeys[n]), lower(item.k))}

Lowest(S) == CHOOSE n \in S : \A m \in S : n <= m

\* C29: the value is that of the exact layer when a key of the field, id
\* before name before identifier, is a key of the data; else that of the
\* case-insensitive layer when it has a hit; else that of an item of the
\* substring layer when it has one; else that of an item of the concept
\* table; and None when no layer has a hit
C29_LayersInOrder ==
    res.op = "match"
    => IF ExactHits # {}
       THEN \E item \in ItemsOf(arg.field_data) :
                item.k = LayerKeys[Lowest(ExactHits)] /\ res.value = item.v
       ELSE IF InsensitiveHits # {}
       THEN \E item \in ItemsOf(arg.field_data) :
                /\ lower(item.k) = lower(LayerKeys[Lowest(InsensitiveHits)])
                /\ res.value = item.v
       ELSE IF SubstringHits # {}
       THEN \E item \in SubstringHits : res.value = item.v
       ELSE IF ConceptHits # {}
       THEN \E item \in ConceptHits : res.value = item.v
       ELSE res.value = None

\* C29: a field bound by its name although another item matches its
\* identifier without regard to case, one bound without regard to case
\* although another item contains its key, and one bound by containment
\* although another item is of its concept
C29_Witness ==
    /\ res.op = "match"
    /\ \/ ExactHits # {} /\ Cardinality(InsensitiveHits) >= 1
                /\ \E item \in SubstringHits : item.v # res.value
       \/ ExactHits = {} /\ InsensitiveHits # {}
                /\ \E item \in SubstringHits : item.v # res.value
       \/ ExactHits = {} /\ InsensitiveHits = {} /\ SubstringHits # {}
                /\ \E item \in ConceptHits : item.v # res.value

\* C30: when the substring layer binds the field, the value is that of an
\* item with the shortest key among the items that match by containment,
\* whatever the order of the items in the data
C30_ShortestSubstring ==
    (res.op = "match" /\ ExactHits = {} /\ InsensitiveHits = {} /\ SubstringHits # {})
    => \E item \in SubstringHits :
            /\ res.value = item.v
            /\ \A other \in SubstringHits : Len(item.k) <= Len(other.k)
(***************************************************************************)
(* The data the lightweight paths send: hidden inputs, then caller's data  *)
(***************************************************************************)
MaxHiddenKeys == 2

\* d[key] = value on a dict kept as its items in insertion order
DictSet(d, key, value) ==
    IF \E i \in 1..Len(d) : d[i].k = key
    THEN [i \in 1..Len(d) |-> IF d[i].k = key THEN [k |-> key, v |-> value] ELSE d[i]]
    ELSE Append(d, [k |-> key, v |-> value])

RECURSIVE DictUpdate(_, _)
DictUpdate(d, items) ==
    IF items = <<>> THEN d
    ELSE DictUpdate(DictSet(d, Head(items).k, Head(items).v), Tail(items))

\* the inputs of the target form: a session token, a named hidden input
\* without a value attribute, a hidden input without a name, a text input
HiddenForms ==
    { << [type |-> <<"h","i","d","d","e","n">>, name |-> <<"c","s","r","f","_","t","o","k","e","n">>, value |-> <<"t","0","k">>],
         [type |-> <<"t","e","x","t">>, name |-> <<"e","m","a","i","l">>, value |-> <<>>] >>,
      << [type |-> <<"h","i","d","d","e","n">>, name |-> <<"c","s","r","f","_","t","o","k","e","n">>, value |-> <<"t","0","k">>],
         [type |-> <<"h","i","d","d","e","n">>, name |-> <<"s","t","e","p">>, value |-> None],
         [type |-> <<"t","e","x","t">>, name |-> <<"e","m","a","i","l">>, value |-> <<>>] >>,
      << [type |-> <<"h","i","d","d","e","n">>, name |-> None, value |-> <<"x">>],
         [type |-> <<"t","e","x","t">>, name |-> <<"e","m","a","i","l">>, value |-> <<>>] >> }

HiddenItems ==
    { [k |-> <<"e","m","a","i","l">>, v |-> <<"a","@","b",".","c">>],
      [k |-> <<"c","s","r","f","_","t","o","k","e","n">>, v |-> <<"m","i","n","e">>],
      [k |-> <<"c","s","r","f","_","t","o","k","e","n">>, v |-> <<"t","0","k">>],
      [k |-> <<"s","t","e","p">>, v |-> <<"2">>],
      [k |-> <<"c","o","m","m","e","n","t">>, v |-> <<"h","i">>] }

HiddenDatas ==
    {d \in UNION {[1..n -> HiddenItems] : n \in 1..MaxHiddenKeys} :
        \A i, j \in DOMAIN d : i # j => d[i].k # d[j].k}

\* form.find_all('input', {'type': 'hidden'})
hidden_fields(form) == SelectSeq(form, LAMBDA input : input.type = <<"h","i","d","d","e","n">>)

\* hidden.get('value', ''): the attribute, or '' when the tag has none
HiddenValue(hidden) == IF hidden.value = None THEN <<>> ELSE hidden.value

RECURSIVE IncludeHidden(_, _)
IncludeHidden(submission_data, hiddens) ==
    IF hiddens = <<>> THEN submission_data
    ELSE IncludeHidden(
            IF Head(hiddens).name # None /\ Head(hiddens).name # <<>>
            THEN DictSet(submission_data, Head(hiddens).name, HiddenValue(Head(hiddens)))
            ELSE submission_data,
            Tail(hiddens))

\* the submission data of UltraFormSubmitter._attempt_form_submission
UltraSubmissionData(form, field_data) ==
    DictUpdate(IncludeHidden(<<>>, hidden_fields(form)), field_data)

InitHidden ==
    /\ arg \in [op : {"send"}, form : HiddenForms, field_data : HiddenDatas]
    /\ res = NoCall
    /\ EngineAtRest

BuildSubmissionData ==
    /\ arg.op = "send"
    /\ res = NoCall
    /\ res' = [op |-> "send", submission_data |-> UltraSubmissionData(arg.form, arg.field_data)]
    /\ UNCHANGED <<arg, engine>>

NextHidden == BuildSubmissionData

SpecHidden == InitHidden /\ [][NextHidden]_vars

\* C31: every named hidden input of the target form is sent with the value
\* it had on the page, whatever the caller's data map holds
C31_HiddenFieldsSent ==
    res.op = "send"
    => \A n \in 1..Len(arg.form) :
          (arg.form[n].type = <<"h","i","d","d","e","n">> /\ arg.form[n].name # None)
          => \E i \in 1..Len(res.submission_data) :
                /\ res.submission_data[i].k = arg.form[n].name
                /\ res.submission_data[i].v = HiddenValue(arg.form[n])
(***************************************************************************)
(* One browser attempt as the URLs it sees: the one it was called with,    *)
(* the one the navigation ends on, the one after the submit tactic         *)
(***************************************************************************)
\* where the site sends a get(): nowhere else, or on to another page
Redirects == {"stays", "redirects"}

\* what the submit tactic does to the page: nothing, or the site answers
\* with another page
TacticEffects == {"stays", "moves"}

BaselineContents == { <<"h","e","l","l","o">>, <<"T","h","a","n","k"," ","y","o","u">>, <<"e","r","r","o","r">>, <<>> }

\* browser_page.url after browser_page.get(url)
LandedUrl(url, redirect) == IF redirect = "redirects" THEN <<"/","w","e","l","c","o","m","e">> ELSE url

\* browser_page.url after the tactic ran on the page at landed
UrlAfterTactic(landed, effect) == IF effect = "moves" THEN <<"/","d","o","n","e">> ELSE landed

InitBaseline ==
    /\ arg \in [op : {"submit_with_browser"}, url : OriginalUrls, redirect : Redirects,
                effect : TacticEffects, content : BaselineContents]
    /\ res = NoCall
    /\ submitter = [class |-> "none"]
    /\ frame = [pc |-> "navigate"]
    /\ trace = [shown |-> <<>>, before_submit |-> <<>>]

\* self.scraper.browser_page.get(url), and the sleep after it
BaselineNavigate ==
    /\ frame.pc = "navigate"
    /\ trace' = [trace EXCEPT !.shown = LandedUrl(arg.url, arg.redirect)]
    /\ frame' = [pc |-> "interact"]
    /\ UNCHANGED <<arg, res, submitter>>

\* the fill and _safe_submit_form(form), and the sleep after them
BaselineSubmitForm ==
    /\ frame.pc = "interact"
    /\ trace' = [shown |-> UrlAfterTactic(trace.shown, arg.effect),
                 before_submit |-> trace.shown]
    /\ frame' = [pc |-> "process"]
    /\ UNCHANGED <<arg, res, submitter>>

\* response_result = await self._safe_process_response(url)
BaselineProcessResponse ==
    /\ frame.pc = "process"
    /\ res' = _safe_process_response(arg.content, trace.shown, arg.url)
    /\ frame' = Idle
    /\ UNCHANGED <<arg, submitter, trace>>

NextBaseline == BaselineNavigate \/ BaselineSubmitForm \/ BaselineProcessResponse

SpecBaseline == InitBaseline /\ [][NextBaseline]_vars

\* C32: the classifier compares the final URL with the URL the page had just
\* before the submit tactic ran, so a page the tactic left where it was has
\* no changed URL and no indicator drawn from the URL
C32_BaselineBeforeSubmit ==
    res.op = "process_response"
    => /\ res.original_url = trace.before_submit
       /\ trace.shown = trace.before_submit
            => /\ ~res.url_changed
               /\ \A n \in 1..Len(res.success_indicators) :
                    res.success_indicators[n] \notin {"url_changed", "success_url_redirect"}
(***************************************************************************)
(* The fill on forms whose elements can or cannot be listed                *)
(***************************************************************************)
InitAccount ==
    /\ arg \in [op : {"fill_form"}, form : FillForms, field_data : FillDatas,
                eles_raises : BOOLEAN]
    /\ res = NoCall
    /\ EngineAtRest

SafeFillFormFields ==
    /\ arg.op = "fill_form"
    /\ res = NoCall
    /\ res' = _safe_fill_form_fields(arg.form, arg.eles_raises, arg.field_data)
    /\ UNCHANGED <<arg, engine>>

NextAccount == SafeFillFormFields

SpecAccount == InitAccount /\ [][NextAccount]_vars

\* the entries of the fill result: filled, in error and skipped
Accounted == res.fields_filled + Len(res.errors) + Len(res.skipped_fields)

\* C33 as stated: for every form and data map the result has a
\* total_elements, and fields_filled plus the error entries plus the skipped
\* entries equals it
C33_AsStated ==
    res.op = "fill"
    => /\ "total_elements" \in DOMAIN res
       /\ Accounted = res.total_elements

\* C33 amended: when the elements of the form could be listed, the result
\* counts each of them once, fields_filled plus the error entries plus the
\* skipped entries being total_elements, the number of the elements; when
\* listing them raised, the result has no total_elements, no filled and no
\* skipped field, and one error entry
C33_EachElementOnce ==
    res.op = "fill"
    => IF arg.eles_raises
       THEN /\ "total_elements" \notin DOMAIN res
            /\ res.fields_filled = 0 /\ res.skipped_fields = <<>> /\ Len(res.errors) = 1
       ELSE /\ res.total_elements = Len(arg.form)
            /\ res.fields_filled = Len(res.filled_fields)
            /\ Accounted = res.total_elements

\* C33: a form with a hidden input and a field in error or without a
\* value next to it
C33_Witness ==
    /\ res.op = "fill"
    /\ ~arg.eles_raises
    /\ res.total_elements = 2
    /\ \E i \in 1..Len(res.skipped_fields) : res.skipped_fields[i].why = "type_skipped"
    /\ res.errors # <<>> \/ res.fields_filled = 1
(***************************************************************************)
(* One field resolved twice: by validate from its descriptor, by the fill  *)
(* of submit from its element                                              *)
(***************************************************************************)
\* the descriptor extraction builds for the first input of a form:
\* 'identifier' is id or name or f'input_{len(fields)}'
DescriptorOf(field) ==
    [id |-> field.id, name |-> field.name,
     identifier |-> IF field.id # <<>> THEN field.id
                    ELSE IF field.name # <<>> THEN field.name
                    ELSE <<"i","n","p","u","t","_","0">>]

InitResolve ==
    /\ arg \in [op : {"resolve"}, field : LayerFields, field_data : LayerDatas]
    /\ res = NoCall
    /\ EngineAtRest

\* provided_value of validate_submission_data, and value of the fill loop
ResolveTwice ==
    /\ arg.op = "resolve"
    /\ res = NoCall
    /\ res' = [op |-> "resolve",
               validated |-> _safe_find_field_value(DescriptorOf(arg.field), arg.field_data),
               filled |-> _find_field_value_multiple_strategies(
                            arg.field_data, LayerIdentifier(arg.field), arg.field.name,
                            arg.field.id, arg.field.placeholder)]
    /\ UNCHANGED <<arg, engine>>

NextResolve == ResolveTwice

SpecResolve == InitResolve /\ [][NextResolve]_vars

\* C34: validate and the fill of submit resolve the same value for a field:
\* a field validate finds no value for is one the fill leaves alone, and a
\* field the fill binds has the value validate checked
C34_SameResolution ==
    res.op = "resolve"
    => /\ res.validated = <<>> <=> res.filled = None
       /\ res.filled # None => res.filled = res.validated
(***************************************************************************)
(* extract against a page that changes between its two fetches             *)
(***************************************************************************)
\* a second form, with a field of its own
SearchForm == << Element("input", <<"t","e","x","t">>, <<"q">>, <<>>, TRUE, FALSE) >>

\* the page with no form, one form and two forms, each as the session reads
\* it and behind a barrier that sends the probe to the browser
RefetchPages ==
    { [FormPage EXCEPT !.forms = forms, !.content = content] :
        forms \in { <<>>, FormPage.forms, FormPage.forms \o <<SearchForm>> },
        content \in { <<"C","o","n","t","a","c","t"," ","u","s">>, <<"c","a","p","t","c","h","a">> } }

RefetchFormIndexes == {0, 1}

\* probed is the page the analysis fetched, later the page the reader of the
\* fields fetched
InitRefetch ==
    /\ arg \in [op : {"extract_refetched"}, probed : RefetchPages, later : RefetchPages,
                form_index : RefetchFormIndexes]
    /\ res = NoCall
    /\ submitter = [class |-> "BulletproofFormSubmitter", submission_history |-> <<>>,
                    scraper |-> NewScraper]
    /\ frame = Idle
    /\ trace = [now |-> 1]

\* extract_form_fields_enhanced: the analysis on the page as probed, the
\* fields from the page as fetched again
ExtractRefetched ==
    /\ arg.op = "extract_refetched"
    /\ res = NoCall
    /\ \E call \in {ExtractAfter(
                        analyze_page_comprehensive_enhanced(
                            submitter.scraper, [WorkingSite EXCEPT !.page = arg.probed],
                            <<"/","f","o","r","m">>),
                        [WorkingSite EXCEPT !.page = arg.later], <<"/","f","o","r","m">>,
                        arg.form_index)} :
        /\ res' = [op |-> "extract", raised |-> call.raised, value |-> call.value]
        /\ submitter' = [submitter EXCEPT !.scraper = call.scraper]
    /\ UNCHANGED <<arg, frame, trace>>

NextRefetch == ExtractRefetched

SpecRefetch == InitRefetch /\ [][NextRefetch]_vars

\* C35: a success for index i carries the fields of the form at index i of
\* the content fetched for the extraction; when that content has no form at
\* index i, extract fails
C35_FieldsOfFetchedForm ==
    (res.op = "extract" /\ ~res.raised /\ res.value.success)
    => /\ arg.form_index < Len(arg.later.forms)
       /\ res.value.fields
            \in { _parse_fields_from_html(arg.later.forms[arg.form_index + 1]),
                  _extract_fields_with_browser_safe(arg.later.forms[arg.form_index + 1]) }
(***************************************************************************)
(* Two operations on one scraper that both need the browser: each is a     *)
(* task of the event loop, suspended only at the asyncio.sleep(1) of       *)
(* _safe_create_browser                                                    *)
(***************************************************************************)
Creators == {1, 2}

MaxContexts == 3    \* browser contexts ChromiumPage() may build in a run

\* a task outside _safe_create_browser, holding no browser of its own
NotCreating == [pc |-> "idle", browser |-> 0]

\* 0 stands for None; made are the contexts ChromiumPage() built, quit those
\* whose quit() was called, epoch those built since the last close()
InitCreate ==
    /\ arg \in [op : {"create"}, use_stealth : BOOLEAN]
    /\ res = NoCall
    /\ submitter = [class |-> "BulletproofFormScraper", browser_page |-> 0,
                    _browser_created |-> FALSE]
    /\ frame = [t \in Creators |-> NotCreating]
    /\ trace = [made |-> {}, quit |-> {}, epoch |-> {}]

\* browser = ChromiumPage(...): the next context
Built(id) == [trace EXCEPT !.made = @ \cup {id}, !.epoch = @ \cup {id}]

\* 'if not self.browser_page: self.browser_page = await
\* self._safe_create_browser()' up to the first sleep of the routine
CreateBrowser(t) ==
    /\ frame[t].pc = "idle"
    /\ submitter.browser_page = 0
    /\ ~submitter._browser_created    \* else the routine returns self.browser_page as it is
    /\ Cardinality(trace.made) < MaxContexts
    /\ trace' = Built(Cardinality(trace.made) + 1)
    /\ frame' = [frame EXCEPT ![t] =
                    [pc |-> IF arg.use_stealth THEN "with_options" ELSE "basic",
                     browser |-> Cardinality(trace.made) + 1]]
    /\ UNCHANGED <<arg, res, submitter>>

\* after the sleep: browser.get('about:blank') passes, the flag is set and
\* the caller stores the browser the routine returns
BrowserTested(t) ==
    /\ frame[t].pc \in {"with_options", "basic"}
    /\ submitter' = [submitter EXCEPT !._browser_created = TRUE,
                                      !.browser_page = frame[t].browser]
    /\ frame' = [frame EXCEPT ![t] = NotCreating]
    /\ UNCHANGED <<arg, res, trace>>

\* after the sleep: the test of the browser built with options raises; it is
\* quit and the basic browser is built
FallBackToBasic(t) ==
    /\ frame[t].pc = "with_options"
    /\ Cardinality(trace.made) < MaxContexts
    /\ trace' = [Built(Cardinality(trace.made) + 1) EXCEPT !.quit = @ \cup {frame[t].browser}]
    /\ frame' = [frame EXCEPT ![t] = [pc |-> "basic", browser |-> Cardinality(trace.made) + 1]]
    /\ UNCHANGED <<arg, res, submitter>>

\* after the sleep: the test of the basic browser raises; the flag is reset
\* and the exception goes to the caller
BasicFailed(t) ==
    /\ frame[t].pc = "basic"
    /\ submitter' = [submitter EXCEPT !._browser_created = FALSE]
    /\ frame' = [frame EXCEPT ![t] = NotCreating]
    /\ UNCHANGED <<arg, res, trace>>

\* close(), called when no operation is under way
CloseScraper ==
    /\ \A t \in Creators : frame[t].pc = "idle"
    /\ trace.epoch # {}
    /\ trace' = [trace EXCEPT !.epoch = {},
                              !.quit = IF submitter.browser_page # 0
                                       THEN @ \cup {submitter.browser_page} ELSE @]
    /\ submitter' = [submitter EXCEPT !.browser_page = 0, !._browser_created = FALSE]
    /\ UNCHANGED <<arg, res, frame>>

NextCreate ==
    \/ \E t \in Creators : CreateBrowser(t)
    \/ \E t \in Creators : BrowserTested(t)
    \/ \E t \in Creators : FallBackToBasic(t)
    \/ \E t \in Creators : BasicFailed(t)
    \/ CloseScraper

SpecCreate == InitCreate /\ [][NextCreate]_vars

\* the contexts that were built and not quit
Open == trace.made \ trace.quit

\* the contexts the scraper refers to, or a creation under way will return
Held == {submitter.browser_page} \cup {frame[t].browser : t \in Creators}

\* C36: between two close() calls at most one browser context is left open,
\* and every open context is referenced by the scraper, or is being created
\* and about to be, so that close() releases it
C36_OneBrowserKept ==
    /\ Cardinality(trace.epoch \ trace.quit) <= 1
    /\ Open \subseteq Held
(***************************************************************************)
(* What the operations leave alone: probe, extract, validate and submit on *)
(* one submitter that has a history, against one site                      *)
(***************************************************************************)
ReadOps == {"probe", "extract", "validate"}

FrameSites ==
    { WorkingSite, [WorkingSite EXCEPT !.browser = "raises"],
      [WorkingSite EXCEPT !.session_get = "raises"],
      [WorkingSite EXCEPT !.page = [FormPage EXCEPT !.content = <<"c","a","p","t","c","h","a">>]] }

\* the submitter as new, and after an earlier call that left a record and a
\* session
InitFrame ==
    /\ arg = NoCall
    /\ res = NoCall
    /\ \E k \in {0, 1}, site \in FrameSites :
        /\ submitter = [class |-> "BulletproofFormSubmitter",
                        submission_history |-> HistoryAfter("BulletproofFormSubmitter", k),
                        scraper |-> ScraperAfter("BulletproofFormSubmitter", k)]
        /\ trace = [now |-> k + 1, began |-> k + 1, started |-> 0, used |-> 0, slept |-> <<>>,
                    finished |-> [n \in 1..k |->
                                    [timestamp |-> n, attempt |-> 1, success |-> FALSE]],
                    methods |-> <<>>, site |-> site]
    /\ frame = Idle

\* variant: the call is noted in the history
AfterRead_Recorded(instance, call) ==
    [instance EXCEPT !.scraper = call.scraper,
                     !.submission_history = Append(@, [attempt |-> 0, success |-> ~call.raised])]

\* the submitter after an operation that works through its scraper
AfterRead(instance, call) == [instance EXCEPT !.scraper = call.scraper]

\* test_url_accessibility_enhanced, extract_form_fields_enhanced and
\* validate_submission_enhanced, called and returned
ReadCall ==
    /\ frame.pc = "idle"
    /\ trace.used + 1 <= MaxAttempts
    /\ \E op \in ReadOps, url \in OpUrls, form_index \in OpFormIndexes,
          field_data \in StableDatas :
       \E call \in {IF op = "probe"
                    THEN test_url_accessibility_enhanced(submitter.scraper, trace.site, url)
                    ELSE IF op = "extract"
                    THEN extract_form_fields_enhanced(submitter.scraper, trace.site, url,
                                                      form_index)
                    ELSE validate_submission_enhanced(submitter.scraper, trace.site, url,
                                                      field_data, form_index,
                                                      << <<"e","m","a","i","l">>, <<"u","s","e","r","_","e","m","a","i","l">> >>)} :
        /\ arg' = [op |-> op, url |-> url, form_index |-> form_index,
                   field_data |-> field_data]
        /\ res' = Outcome(call)
        /\ submitter' = AfterRead(submitter, call)
    /\ trace' = [trace EXCEPT !.used = @ + 1]
    /\ UNCHANGED frame

NextFrame ==
    \/ ReadCall
    \/ SubmitCall
    \/ BeginAttempt
    \/ FinishAttempt
    \/ Wake

SpecFrame == InitFrame /\ [][NextFrame]_vars

\* the step is the call and return of a probe, an extract or a validate
ReadStep == arg'.op \in ReadOps /\ trace'.used # trace.used

\* the step is a call of submit with an empty url or empty field data
RejectedStep ==
    /\ frame.pc = "idle"
    /\ trace'.used # trace.used
    /\ arg'.op = "submit"
    /\ arg'.url = <<>> \/ arg'.field_data = <<>>

\* C37: a submit call rejected at input validation returns a failure with
\* attempts = 0 and changes neither the attempt history nor the session and
\* browser of the scraper; probe, extract and validate never change the
\* attempt history, whatever they return
C37_FrameEffects ==
    [][/\ RejectedStep
            => /\ ~res'.success
               /\ res'.attempts = 0
               /\ submitter' = submitter
               /\ frame'.pc = "idle"
       /\ ReadStep => submitter'.submission_history = submitter.submission_history]_vars

\* C37: a submit rejected on a submitter that has a record and a session,
\* after a call that reached the site
C37_Witness ==
    /\ arg.op = "submit"
    /\ arg.url = <<>> \/ arg.field_data = <<>>
    /\ frame.pc = "idle"
    /\ res.attempts = 0
    /\ Len(submitter.submission_history) >= 1
    /\ submitter.scraper.session_page
    /\ trace.used >= 2
(***************************************************************************)
(* The server's global submitter: the tools that use it and the tools      *)
(* that dispose of it                                                      *)
(***************************************************************************)
MaxInstances == 3    \* submitters the server may construct in a run
MaxRecords == 2      \* attempts the submit calls of a run may record together

\* USE_STEALTH is read from the environment at the start. 0 stands for None;
\* made counts the submitters constructed, since the
\* instances get_submitter returned since the last disposing tool, recorded
\* the attempts recorded since then
InitServer ==
    /\ arg = NoCall
    /\ res = NoCall
    /\ \E stealth \in BOOLEAN :
        submitter = [instance |-> 0, submission_history |-> <<>>,
                     _shutdown_requested |-> FALSE, USE_STEALTH |-> stealth]
    /\ frame = Idle
    /\ trace = [made |-> 0, since |-> {}, recorded |-> 0]

\* get_submitter(): the server's globals after the call; .instance is the
\* submitter returned
get_submitter(server, made) ==
    IF server.instance = 0 \/ server._shutdown_requested
    THEN [server EXCEPT !.instance = made + 1, !.submission_history = <<>>]
    ELSE server

\* whether the call constructs a submitter
Constructs(server) == server.instance = 0 \/ server._shutdown_requested

\* what the observer notes of a get_submitter()
Got(server) ==
    [trace EXCEPT !.made = IF Constructs(server) THEN @ + 1 ELSE @,
                  !.since = @ \cup {get_submitter(server, trace.made).instance}]

\* the submit_form tool: the submitter records the attempts of the call,
\* none for a call rejected at its inputs
SubmitFormTool ==
    /\ Constructs(submitter) => trace.made < MaxInstances
    /\ \E attempts \in 0..(MaxRecords - trace.recorded) :
        /\ arg' = [op |-> "submit_form", attempts |-> attempts]
        /\ submitter' =
            [get_submitter(submitter, trace.made) EXCEPT
                !.submission_history =
                    @ \o [n \in 1..attempts |-> [attempt |-> n, success |-> FALSE]]]
        /\ res' = [op |-> "submit_form", success |-> FALSE]
        /\ trace' = [Got(submitter) EXCEPT !.recorded = @ + attempts]
    /\ UNCHANGED frame

\* the get_submission_history tool
GetSubmissionHistory ==
    /\ Constructs(submitter) => trace.made < MaxInstances
    /\ arg' = [op |-> "get_submission_history"]
    /\ submitter' = get_submitter(submitter, trace.made)
    /\ res' = [op |-> "get_submission_history",
               total_submissions |-> Len(submitter'.submission_history)]
    /\ trace' = Got(submitter)
    /\ UNCHANGED frame

\* configure_stealth_mode(enable_stealth) and cleanup(): both dispose of the
\* submitter; the one first stores the setting, the other first sets
\* _shutdown_requested
DisposeSubmitter ==
    /\ \E tool \in {"configure_stealth_mode", "cleanup"}, enable_stealth \in BOOLEAN :
        /\ tool = "cleanup" => enable_stealth = submitter.USE_STEALTH
        /\ arg' = [op |-> tool]
        /\ submitter' = [instance |-> 0, submission_history |-> <<>>,
                         _shutdown_requested |->
                            submitter._shutdown_requested \/ tool = "cleanup",
                         USE_STEALTH |-> enable_stealth]
    /\ trace.since # {}
    /\ res' = NoCall
    /\ trace' = [trace EXCEPT !.since = {}, !.recorded = 0]
    /\ UNCHANGED frame

NextServer == SubmitFormTool \/ GetSubmissionHistory \/ DisposeSubmitter

SpecServer == InitServer /\ [][NextServer]_vars

\* C38: the calls of get_submitter since the server started, or since
\* configure_stealth_mode or cleanup disposed of the submitter, returned one
\* and the same instance, and get_submission_history reports the attempts
\* the submit calls recorded since then
C38_OneSubmitterShared ==
    /\ Cardinality(trace.since) <= 1
    /\ res.op = "get_submission_history" => res.total_submissions = trace.recorded
====
